---- MODULE Spec2Model ----
(***************************************************************************)
(* Ascription engine of pology's poascribe script: the field separator     *)
(* codec, the history reconstructor, the ascription writer and the         *)
(* compound selector, modelled from src/scripts/poascribe.py.              *)
(*                                                                         *)
(* Text is a sequence of one-character strings; an ascription comment line *)
(* is a sequence of tokens whose concatenation is the line (a word such as *)
(* "modified" or a user name is one token, blanks, separators, digits and  *)
(* marks are one token each).  Python's None is the empty tuple and a      *)
(* present optional value v is <<v>>.                                      *)
(***************************************************************************)
EXTENDS Integers, Sequences, FiniteSets, TLC

\* ------------------------------------------------------------------------
\* Python string primitives, 0-based as in the source.

None == <<>>
Some(v) == <<v>>

Max(a, b) == IF a > b THEN a ELSE b
Min(a, b) == IF a < b THEN a ELSE b

RECURSIVE FindFrom(_, _, _)
FindFrom(s, sub, p) ==
    IF p + Len(sub) > Len(s) THEN -1
    ELSE IF SubSeq(s, p + 1, p + Len(sub)) = sub THEN p
    ELSE FindFrom(s, sub, p + 1)

\* s.find(sub, start)
Find(s, sub, start) == FindFrom(s, sub, start)

\* sub in s
Contains(s, sub) == Find(s, sub, 0) >= 0

\* s[a:b], negative indices counted from the end
PySlice(s, a, b) ==
    LET n  == Len(s)
        a1 == IF a < 0 THEN Max(a + n, 0) ELSE Min(a, n)
        b1 == IF b < 0 THEN Max(b + n, 0) ELSE Min(b, n)
    IN  IF b1 <= a1 THEN <<>> ELSE SubSeq(s, a1 + 1, b1)

RECURSIVE Join(_, _)
\* sep.join(parts)
Join(parts, sep) ==
    IF parts = <<>> THEN <<>>
    ELSE IF Len(parts) = 1 THEN parts[1]
    ELSE parts[1] \o sep \o Join(Tail(parts), sep)

RECURSIVE Split(_, _)
\* s.split(c) for a one-character separator c
Split(s, c) ==
    LET p == Find(s, <<c>>, 0)
    IN  IF p < 0 THEN <<s>>
        ELSE <<SubSeq(s, 1, p)>> \o Split(SubSeq(s, p + 2, Len(s)), c)

\* s.split(c, 1)
Split1(s, c) ==
    LET p == Find(s, <<c>>, 0)
    IN  IF p < 0 THEN <<s>>
        ELSE <<SubSeq(s, 1, p), SubSeq(s, p + 2, Len(s))>>

RECURSIVE LStrip(_)
LStrip(s) == IF s # <<>> /\ s[1] = " " THEN LStrip(Tail(s)) ELSE s

RECURSIVE RStrip(_)
RStrip(s) ==
    IF s # <<>> /\ s[Len(s)] = " " THEN RStrip(SubSeq(s, 1, Len(s) - 1)) ELSE s

\* s.strip()
Strip(s) == RStrip(LStrip(s))

\* s.replace(c, "", 1)
RemoveFirst(s, c) ==
    LET p == Find(s, <<c>>, 0)
    IN  IF p < 0 THEN s ELSE SubSeq(s, 1, p) \o SubSeq(s, p + 2, Len(s))

Digits == <<"0", "1", "2", "3", "4", "5", "6", "7", "8", "9">>

IsDigit(c) == \E d \in 1..10 : Digits[d] = c

DigitVal(c) == (CHOOSE d \in 1..10 : Digits[d] = c) - 1

IsDigits(s) == s # <<>> /\ \A i \in 1..Len(s) : IsDigit(s[i])

RECURSIVE DigitsVal(_)
DigitsVal(s) ==
    IF s = <<>> THEN 0
    ELSE 10 * DigitsVal(SubSeq(s, 1, Len(s) - 1)) + DigitVal(s[Len(s)])

RECURSIVE ToStr(_)
\* str(n) for n >= 0
ToStr(n) ==
    IF n < 10 THEN <<Digits[n + 1]>>
    ELSE ToStr(n \div 10) \o <<Digits[(n % 10) + 1]>>

Reverse(s) == [i \in 1..Len(s) |-> s[Len(s) + 1 - i]]

\* [v] * n, empty for n <= 0
Repeat(v, n) == IF n <= 0 THEN <<>> ELSE [k \in 1..n |-> v]

\* ------------------------------------------------------------------------
\* Field sets and markers.

NL == "\n"

id_fields == <<"msgctxt", "msgid">>
fields_previous == <<"msgctxt_previous", "msgid_previous", "msgid_plural_previous">>
fields_comment == {"manual_comment", "auto_comment"}
nonid_fields_tracked ==
    <<"msgid_plural", "msgstr">> \o fields_previous \o <<"manual_comment">>
multiple_fields == {"msgstr"} \cup fields_comment
nonid_fields_eq_nonfuzzy == <<"msgid_plural", "msgstr", "manual_comment">>
nonid_fields_eq_fuzzy == nonid_fields_eq_nonfuzzy \o fields_previous

IsPrevious(field) == \E k \in 1..Len(fields_previous) : fields_previous[k] = field

trsep_head == "|"
trsep_head_ext == "~"
trsep_mod_none == "x"
trsep_mod_eq == "e"

\* A message: the live one, a record of the shadow catalog, or a snapshot.
\* Optional single fields hold None or Some(text); msgstr and the comments
\* hold lists of texts.
NewMessage ==
    [msgctxt |-> None, msgid |-> None, msgid_plural |-> None, msgstr |-> <<>>,
     msgctxt_previous |-> None, msgid_previous |-> None,
     msgid_plural_previous |-> None,
     manual_comment |-> <<>>, auto_comment |-> <<>>,
     fuzzy |-> FALSE, obsolete |-> FALSE]

MsgKey(m) == <<m.msgctxt, m.msgid>>

st_tran == "T"
st_fuzzy == "F"
st_untran == "U"

\* Message.state(): fuzzy, untranslated or translated, "O"-prefixed when obsolete
MsgState(m) ==
    LET base == IF m.fuzzy THEN st_fuzzy
                ELSE IF \A i \in 1..Len(m.msgstr) : m.msgstr[i] = <<>> THEN st_untran
                ELSE st_tran
    IN  <<m.obsolete, base>>

field_separator_head(length) == <<trsep_head>> \o Repeat(trsep_head_ext, length)

SepheadInTracked_nocomment(msg, seplen) ==
    \E f \in 1..Len(nonid_fields_tracked) :
        LET values == msg[nonid_fields_tracked[f]]
        IN  /\ nonid_fields_tracked[f] \notin fields_comment
            /\ \E k \in 1..Len(values) :
                   Contains(values[k], field_separator_head(seplen))

\* Whether the marker of the given length occurs in a tracked field of msg.
SepheadInTracked(msg, seplen) ==
    \E f \in 1..Len(nonid_fields_tracked) :
        LET values == msg[nonid_fields_tracked[f]]
        IN  \E k \in 1..Len(values) :
                Contains(values[k], field_separator_head(seplen))

RECURSIVE NeededFrom(_, _)
NeededFrom(msg, seplen) ==
    IF SepheadInTracked(msg, seplen) THEN NeededFrom(msg, seplen + 1) ELSE seplen

needed_separator_length(msg) == NeededFrom(msg, 1)

has_nonid_diff(pmsg, msg) ==
    \E f \in 1..Len(nonid_fields_tracked) :
        LET field == nonid_fields_tracked[f]
            msg_value == IF ~msg.fuzzy /\ IsPrevious(field) THEN None ELSE msg[field]
        IN  msg_value # pmsg[field]

get_as_sequence(msg, field, asc) ==
    IF ~asc /\ ~msg.fuzzy /\ IsPrevious(field) THEN <<>>
    ELSE IF field \notin multiple_fields THEN msg[field]
    ELSE IF field \in fields_comment
         THEN IF msg[field] # <<>> THEN <<Join(msg[field], <<NL>>)>> ELSE <<>>
    ELSE msg[field]

\* The value set_from_sequence assigns to the field.
set_from_sequence(msg_seq, field) ==
    IF field \notin multiple_fields
    THEN IF msg_seq # <<>> THEN Some(msg_seq[1]) ELSE None
    ELSE IF field \in fields_comment
         THEN IF msg_seq # <<>> THEN Split(msg_seq[1], NL) ELSE <<>>
    ELSE msg_seq

\* ------------------------------------------------------------------------
\* Time stamps.  A datetime is [t, utcoff]: local wall-clock reading t (in
\* hours of the model's calendar) and UTC offset in minutes.

Pad2(n) == <<Digits[(n \div 10) + 1], Digits[(n % 10) + 1]>>

Abs(n) == IF n < 0 THEN -n ELSE n

\* format_datetime(dt, wsec=True): the local reading, then %z as +HHMM/-HHMM
format_datetime(dt) ==
    ToStr(dt.t)
    \o <<IF dt.utcoff < 0 THEN "-" ELSE "+">>
    \o Pad2(Abs(dt.utcoff) \div 60) \o Pad2(Abs(dt.utcoff) % 60)

SignPos(s) ==
    LET ps == {p \in 1..Len(s) : s[p] \in {"+", "-"}}
    IN  IF ps = {} THEN 0 ELSE CHOOSE p \in ps : \A q \in ps : p <= q

\* Floor division and modulo by 100, as Python's // and % on integers.
FloorDiv100(n) == IF n >= 0 THEN n \div 100 ELSE -((-n + 99) \div 100)
Mod100(n) == n - 100 * FloorDiv100(n)

\* parse_datetime(dstr): None when no pattern matches (the source raises),
\* else Some(datetime) with the offset split by off // 100 and off % 100.
parse_datetime(dstr) ==
    LET value(loc, off) ==
            Some([t |-> DigitsVal(loc),
                  utcoff |-> FloorDiv100(off) * 60 + Mod100(off)])
        groups(s, p, loc, offs) ==
            IF ~IsDigits(loc) \/ (p # 0 /\ ~IsDigits(offs)) THEN None
            ELSE value(loc, IF p = 0 THEN 0
                            ELSE IF s[p] = "-" THEN -DigitsVal(offs)
                            ELSE DigitsVal(offs))
        match(s, p) ==
            groups(s, p, IF p = 0 THEN s ELSE RStrip(SubSeq(s, 1, p - 1)),
                         IF p = 0 THEN <<>> ELSE SubSeq(s, p + 1, Len(s)))
        stripped(s) == match(s, SignPos(s))
    IN  stripped(Strip(dstr))

\* The instant two aware datetimes are compared by, in minutes.
Instant(dt) == dt.t * 60 - dt.utcoff

\* ------------------------------------------------------------------------
\* Writer: tokens added to the stored strings.

ATYPE_MOD == <<"modified">>
ATYPE_REV == <<"reviewed">>
atag_sep == "/"
mark_fuzz == "f"
mark_obs == "o"
fld_sep == ":"

RECURSIVE PadNone(_, _)
\* The absence tokens of the separator-bearing entries of rhistory from k on.
PadNone(rhistory, k) ==
    IF k > Len(rhistory) THEN <<>>
    ELSE IF rhistory[k].slen # 0
         THEN <<field_separator_head(rhistory[k].slen) \o <<trsep_mod_none>>>>
              \o PadNone(rhistory, k + 1)
    ELSE PadNone(rhistory, k + 1)

RECURSIVE IEqFrom(_, _, _, _, _, _)
\* The loop over rhistory in add_nonid: None, or Some(index) of the first
\* separator-bearing entry whose item i of the field equals value.
IEqFrom(rhistory, k, nmod, field, i, value) ==
    IF k > Len(rhistory) THEN None
    ELSE IF rhistory[k].slen = 0 THEN IEqFrom(rhistory, k + 1, nmod, field, i, value)
    ELSE LET msg_seq_p == get_as_sequence(rhistory[k].msg, field, TRUE)
         IN  IF i <= Len(msg_seq_p) /\ value = msg_seq_p[i] THEN Some(nmod)
             ELSE IEqFrom(rhistory, k + 1, nmod + 1, field, i, value)

add_nonid_eq_nearest(rhistory, field, i, value) ==
    LET mods == SelectSeq(rhistory, LAMBDA a : a.slen # 0)
        eqs == {k \in 1..Len(mods) :
                   /\ i <= Len(get_as_sequence(mods[k].msg, field, TRUE))
                   /\ get_as_sequence(mods[k].msg, field, TRUE)[i] = value}
    IN  IF eqs = {} THEN None
        ELSE Some((CHOOSE k \in eqs : \A j \in eqs : j <= k) - 1)

add_nonid_eq(rhistory, field, i, value) == IEqFrom(rhistory, 1, 0, field, i, value)

add_nonid_token_literal(msg_seq, field, i, shead, rhistory) ==
    IF i <= Len(msg_seq) THEN msg_seq[i] \o shead
    ELSE shead \o <<trsep_mod_none>>

\* The token add_nonid appends to item i of a field.
add_nonid_token(msg_seq, field, i, shead, rhistory) ==
    LET token(i_eq) ==
            IF i_eq = None THEN msg_seq[i] \o shead
            ELSE shead \o <<trsep_mod_eq>> \o ToStr(i_eq[1])
    IN  IF i <= Len(msg_seq)
        THEN token(add_nonid_eq(rhistory, field, i, msg_seq[i]))
        ELSE shead \o <<trsep_mod_none>>

add_nonid_field_prepending(amsg, msg, field, slen, rhistory) ==
    LET joined(old, add) == IF old # <<>> THEN add \o <<NL>> \o old ELSE add
        tokens(amsg_seq, msg_seq, shead) ==
            [i \in 1..Len(amsg_seq) |->
                joined(amsg_seq[i],
                       add_nonid_token(msg_seq, field, i, shead, rhistory))]
        padded(amsg_seq0, msg_seq, padnone) ==
            tokens([i \in 1..Max(Len(amsg_seq0), Len(msg_seq)) |->
                       IF i <= Len(amsg_seq0) THEN amsg_seq0[i] ELSE padnone],
                   msg_seq, field_separator_head(slen))
    IN  padded(get_as_sequence(amsg, field, TRUE),
               get_as_sequence(msg, field, FALSE),
               Join(PadNone(rhistory, 1), <<NL>>))

\* The new stored items of one field.
add_nonid_field(amsg, msg, field, slen, rhistory) ==
    LET joined(old, add) == IF old # <<>> THEN old \o <<NL>> \o add ELSE add
        tokens(amsg_seq, msg_seq, shead) ==
            [i \in 1..Len(amsg_seq) |->
                joined(amsg_seq[i],
                       add_nonid_token(msg_seq, field, i, shead, rhistory))]
        padded(amsg_seq0, msg_seq, padnone) ==
            tokens([i \in 1..Max(Len(amsg_seq0), Len(msg_seq)) |->
                       IF i <= Len(amsg_seq0) THEN amsg_seq0[i] ELSE padnone],
                   msg_seq, field_separator_head(slen))
    IN  padded(get_as_sequence(amsg, field, TRUE),
               get_as_sequence(msg, field, FALSE),
               Join(PadNone(rhistory, 1), <<NL>>))

add_nonid(amsg, msg, slen, rhistory) ==
    [f \in DOMAIN amsg |->
        IF \E k \in 1..Len(nonid_fields_tracked) : nonid_fields_tracked[k] = f
        THEN set_from_sequence(add_nonid_field(amsg, msg, f, slen, rhistory), f)
        ELSE amsg[f]]

asc_append_field(amsg, field, value) ==
    [amsg EXCEPT !.auto_comment = Append(@, field \o <<fld_sep, " ">> \o value)]

\* ------------------------------------------------------------------------
\* Reader: parsing ascription comments.

\* int(s): None when the source's int() raises.
PyInt(s) ==
    IF s # <<>> /\ s[1] \in {"+", "-"}
    THEN IF IsDigits(Tail(s))
         THEN Some(IF s[1] = "-" THEN -DigitsVal(Tail(s)) ELSE DigitsVal(Tail(s)))
         ELSE None
    ELSE IF IsDigits(s) THEN Some(DigitsVal(s)) ELSE None

\* One pass of the loop body of asc_parse_ascriptions over comment cmnt.
\* isfuzz and isobs are the loop-carried locals: None while never assigned.
\* Result: what: "skip" (warning and continue), "raise" (the append reads a
\* local that was never assigned) or "ok" with the parsed tuple.
asc_parse_line(cmnt, users, isfuzz0, isobs0) ==
    LET skip0 == [what |-> "skip", isfuzz |-> isfuzz0, isobs |-> isobs0, asc |-> None]
        made(atype, atag, auser, date, isfuzz, isobs, seplen) ==
            IF seplen = None
            THEN [what |-> "skip", isfuzz |-> isfuzz, isobs |-> isobs, asc |-> None]
            ELSE IF isfuzz = None \/ isobs = None
            THEN [what |-> "raise", isfuzz |-> isfuzz, isobs |-> isobs, asc |-> None]
            ELSE [what |-> "ok", isfuzz |-> isfuzz, isobs |-> isobs,
                  asc |-> Some([user |-> auser, type |-> atype, tag |-> atag,
                                date |-> date[1], slen |-> seplen[1],
                                fuzz |-> isfuzz[1], obs |-> isobs[1]])]
        sized(atype, atag, auser, date, isfuzz, isobs, tmp) ==
            made(atype, atag, auser, date, isfuzz, isobs,
                 IF tmp = <<>> THEN Some(0) ELSE PyInt(tmp))
        obsmarked(atype, atag, auser, date, isfuzz, isobs1, tmp1) ==
            sized(atype, atag, auser, date, isfuzz,
                  IF Contains(tmp1, <<mark_obs>>) THEN Some(TRUE) ELSE isobs1,
                  RemoveFirst(tmp1, mark_obs))
        fuzzmarked(atype, atag, auser, date, isfuzz1, isobs1, tmp0) ==
            obsmarked(atype, atag, auser, date,
                      IF Contains(tmp0, <<mark_fuzz>>) THEN Some(TRUE) ELSE isfuzz1,
                      isobs1, RemoveFirst(tmp0, mark_fuzz))
        dated(atype, atag, auser, date, tmp0) ==
            IF date = None THEN skip0
            ELSE fuzzmarked(atype, atag, auser, date,
                            IF atype = ATYPE_MOD THEN Some(FALSE) ELSE isfuzz0,
                            IF atype = ATYPE_MOD THEN Some(FALSE) ELSE isobs0,
                            tmp0)
        named(atype, atag, auser, lst) ==
            IF auser = <<>> THEN skip0
            ELSE IF auser \notin users THEN skip0
            ELSE dated(atype, atag, auser, parse_datetime(Strip(lst[2])),
                       IF Len(lst) = 3 THEN Strip(lst[3]) ELSE <<>>)
        tagged(atype0, tl, lst) ==
            named(IF Len(tl) = 2 THEN Strip(tl[1]) ELSE atype0,
                  IF Len(tl) = 2 THEN Strip(tl[2]) ELSE <<>>,
                  Strip(lst[1]), lst)
        typed(atype0, lst) ==
            IF Len(lst) < 2 \/ Len(lst) > 3 THEN skip0
            ELSE tagged(atype0, Split1(atype0, atag_sep), lst)
        colon(p) ==
            IF p < 0 THEN skip0
            ELSE typed(Strip(PySlice(cmnt, 0, p)),
                       Split(SubSeq(cmnt, p + 2, Len(cmnt)), "|"))
    IN  colon(Find(cmnt, <<fld_sep>>, 0))

RECURSIVE ParseFrom(_, _, _, _, _, _)
ParseFrom(cmnts, k, users, isfuzz, isobs, acc) ==
    LET next(r) ==
            IF r.what = "raise" THEN [acc EXCEPT !.raised = TRUE]
            ELSE ParseFrom(cmnts, k + 1, users, r.isfuzz, r.isobs,
                     IF r.what = "skip"
                     THEN [acc EXCEPT !.skipped = Append(@, k)]
                     ELSE [acc EXCEPT !.ascripts = Append(@, r.asc[1])])
    IN  IF k > Len(cmnts) THEN acc
        ELSE next(asc_parse_line(cmnts[k], users, isfuzz, isobs))

\* asc_parse_ascriptions(amsg, acat, config): the parsed tuples, the indices
\* of the comments warned about, and whether the call raised.
asc_parse_ascriptions(amsg, users) ==
    ParseFrom(amsg.auto_comment, 1, users, None, None,
              [ascripts |-> <<>>, skipped |-> <<>>, raised |-> FALSE])

\* ------------------------------------------------------------------------
\* Reader: decoding the stored strings.

\* The scan for the digits after the back-reference mark.
RECURSIVE DigitsEnd(_, _)
DigitsEnd(mods, q) ==
    IF q < Len(mods) /\ IsDigit(mods[q + 1]) THEN DigitsEnd(mods, q + 1) ELSE q

\* amsg_step_value(aval, shead, stail, spos, pvals, i), item i counted from 1:
\* the value (None or Some(text)), the advanced cursors and value tables, and
\* whether int() or the table lookup raised.
amsg_step_value(aval, shead, stail, spos0, pvals0, i) ==
    LET result(spos, pvals, p2, pval, bad) ==
            [pval |-> pval,
             spos |-> [spos EXCEPT ![i] = p2 + Len(stail)],
             pvals |-> [pvals EXCEPT ![i] = Append(@, pval)],
             raised |-> bad]
        value(spos, pvals, p0, p1, p2, mods, iseq, nrev, bad) ==
            result(spos, pvals, p2,
                   IF iseq THEN (IF bad THEN None ELSE pvals[i][nrev + 1])
                   ELSE IF Contains(mods, <<trsep_mod_none>>) THEN None
                   ELSE Some(PySlice(aval, p0, p1)),
                   bad)
        numbered(spos, pvals, p0, p1, p2, mods, iseq, q1, q2, nrev) ==
            value(spos, pvals, p0, p1, p2, mods, iseq, nrev,
                  iseq /\ (q2 = q1 \/ nrev >= Len(pvals[i])))
        scanned(spos, pvals, p0, p1, p2, mods, iseq, q1, q2) ==
            numbered(spos, pvals, p0, p1, p2, mods, iseq, q1, q2,
                     DigitsVal(PySlice(mods, q1, q2)))
        referred(spos, pvals, p0, p1, p2, mods, q1) ==
            scanned(spos, pvals, p0, p1, p2, mods,
                    Contains(mods, <<trsep_mod_eq>>), q1, DigitsEnd(mods, q1))
        modified(spos, pvals, p0, p1, p2, mods) ==
            referred(spos, pvals, p0, p1, p2, mods,
                     Find(mods, <<trsep_mod_eq>>, 0) + 1)
        bounded(spos, pvals, p0, p1, p2) ==
            modified(spos, pvals, p0, p1, p2, PySlice(aval, p1 + Len(shead), p2))
        tailed(spos, pvals, p0, p1, p2f) ==
            bounded(spos, pvals, p0, p1, IF p2f < 0 THEN Len(aval) ELSE p2f)
        headed(spos, pvals, p0, p1) ==
            tailed(spos, pvals, p0, p1, Find(aval, stail, p1 + 1))
        extended(spos, pvals) ==
            headed(spos, pvals, spos[i], Find(aval, shead, spos[i]))
    IN  extended(spos0 \o Repeat(0, i - Len(spos0)),
                 pvals0 \o Repeat(<<>>, i - Len(pvals0)))

RECURSIVE DecodeItems(_, _, _, _)
\* The loop over the items of one field for one separator-bearing entry.
DecodeItems(amsg_seq, shead, i, acc) ==
    LET next(r, padded) ==
            DecodeItems(amsg_seq, shead, i + 1,
                [spos |-> r.spos, pvals |-> r.pvals, raised |-> r.raised,
                 pmsg_seq |-> IF r.pval # None
                              THEN [padded EXCEPT ![i] = r.pval[1]]
                              ELSE acc.pmsg_seq])
    IN  IF i > Len(amsg_seq) \/ acc.raised THEN acc
        ELSE next(amsg_step_value(amsg_seq[i], shead, <<NL>>, acc.spos, acc.pvals, i),
                  acc.pmsg_seq \o Repeat(<<>>, i - Len(acc.pmsg_seq)))

TrackedSet == {nonid_fields_tracked[k] : k \in 1..Len(nonid_fields_tracked)}

RECURSIVE CollectFrom(_, _, _, _)
\* The loop of asc_collect_history_single over the parsed ascriptions.
CollectFrom(amsg, ascripts, k, acc) ==
    LET entry(a, pmsg0) ==
            [user |-> Some(a.user), type |-> a.type, tag |-> a.tag,
             date |-> Some(a.date), slen |-> a.slen, fuzz |-> a.fuzz,
             obs |-> a.obs,
             msg |-> [pmsg0 EXCEPT !.fuzzy = a.fuzz, !.obsolete = a.obs],
             pos |-> 0]
        snapshot(a, dec) ==
            IF a.slen # 0
            THEN [f \in DOMAIN NewMessage |->
                    IF f \in TrackedSet
                    THEN set_from_sequence(dec[f].pmsg_seq, f)
                    ELSE IF f \in {"msgctxt", "msgid"} THEN amsg[f]
                    ELSE NewMessage[f]]
            ELSE IF acc.history # <<>>
                 THEN acc.history[Len(acc.history)].msg
                 ELSE NewMessage
        next(a, dec) ==
            IF a.slen # 0 /\ \E f \in TrackedSet : dec[f].raised
            THEN [acc EXCEPT !.raised = TRUE]
            ELSE IF a.slen = 0 /\ acc.history = <<>> THEN [acc EXCEPT !.raised = TRUE]
            ELSE CollectFrom(amsg, ascripts, k + 1,
                     [spos |-> IF a.slen # 0 THEN [f \in TrackedSet |-> dec[f].spos]
                               ELSE acc.spos,
                      pvals |-> IF a.slen # 0 THEN [f \in TrackedSet |-> dec[f].pvals]
                                ELSE acc.pvals,
                      history |-> Append(acc.history, entry(a, snapshot(a, dec))),
                      raised |-> FALSE])
        decoded(a) ==
            next(a, [f \in TrackedSet |->
                        DecodeItems(get_as_sequence(amsg, f, TRUE),
                                    field_separator_head(a.slen), 1,
                                    [spos |-> acc.spos[f], pvals |-> acc.pvals[f],
                                     raised |-> FALSE, pmsg_seq |-> <<>>])])
    IN  IF k > Len(ascripts) \/ acc.raised THEN acc
        ELSE decoded(ascripts[k])

\* The (timestamp, comment order) key the history is sorted by.
KeyLess(h, i, j) ==
    \/ Instant(h[i].date[1]) < Instant(h[j].date[1])
    \/ Instant(h[i].date[1]) = Instant(h[j].date[1]) /\ i < j

\* history_ord.sort(key=(date, index)): the permutation putting h in
\* ascending key order.
SortAscending(h) ==
    LET rank(i) == Cardinality({j \in 1..Len(h) : KeyLess(h, j, i)})
    IN  [r \in 1..Len(h) |-> h[CHOOSE i \in 1..Len(h) : rank(i) = r - 1]]

history_order_unreversed(h) == SortAscending(h)

\* The list in the order the source returns it.
history_order(h) == Reverse(SortAscending(h))

asc_collect_entries_nocopy(amsg, users) ==
    LET blank(h) ==
            [i \in 1..Len(h) |->
                IF h[i].slen # 0 THEN h[i]
                ELSE [h[i] EXCEPT !.msg = [NewMessage EXCEPT !.fuzzy = h[i].fuzz,
                                                             !.obsolete = h[i].obs]]]
        result(pr, acc) ==
            IF pr.raised \/ acc.raised THEN [raised |-> TRUE, history |-> <<>>]
            ELSE [raised |-> FALSE, history |-> blank(acc.history)]
        collected(pr) ==
            result(pr, CollectFrom(amsg, pr.ascripts, 1,
                           [spos |-> [f \in TrackedSet |-> <<0>>],
                            pvals |-> [f \in TrackedSet |-> << <<>> >>],
                            history |-> <<>>, raised |-> FALSE]))
    IN  collected(asc_parse_ascriptions(amsg, users))

\* The first part of asc_collect_history_single: the entries with their
\* snapshots in the order of the comment lines, and whether parsing or
\* decoding raised.
asc_collect_entries(amsg, users) ==
    LET result(pr, acc) ==
            IF pr.raised \/ acc.raised THEN [raised |-> TRUE, history |-> <<>>]
            ELSE [raised |-> FALSE, history |-> acc.history]
        collected(pr) ==
            result(pr, CollectFrom(amsg, pr.ascripts, 1,
                           [spos |-> [f \in TrackedSet |-> <<0>>],
                            pvals |-> [f \in TrackedSet |-> << <<>> >>],
                            history |-> <<>>, raised |-> FALSE]))
    IN  collected(asc_parse_ascriptions(amsg, users))

\* The entries in the order of the comment lines, without the sort by date.
asc_collect_history_single_unsorted(amsg, users) ==
    asc_collect_entries(amsg, users)

\* asc_collect_history_single(amsg, acat, config): the history, newest
\* first, and whether the call raised.
asc_collect_history_single(amsg, users) ==
    LET ordered(col) == [raised |-> col.raised, history |-> history_order(col.history)]
    IN  ordered(asc_collect_entries(amsg, users))

\* ------------------------------------------------------------------------
\* Writer: ascribe_msg_any.

\* Known users of the configuration (config.users), the merge pseudo-user
\* included.
UFUZZ == <<"fuzzy">>
ConfigUsers == {<<"alice">>, <<"bob">>, UFUZZ}

\* Position of the record with the key of msg in the shadow catalog, 0 when
\* msg is not in it (msg in acat, acat[msg]).
AcatIndex(acat_, m) ==
    LET hits == {k \in 1..Len(acat_) : MsgKey(acat_[k]) = MsgKey(m)}
    IN  IF hits = {} THEN 0 ELSE CHOOSE k \in hits : \A j \in hits : k <= j

asc_wsep_unguarded(msg, hasdiff, hasdiff_nonid) ==
    (IF hasdiff_nonid THEN ToStr(needed_separator_length(msg)) ELSE <<>>)
    \o (IF msg.obsolete THEN <<mark_obs>> ELSE <<>>)
    \o (IF msg.fuzzy THEN <<mark_fuzz>> ELSE <<>>)

\* The trailing block of the ascription line.
asc_wsep(msg, hasdiff, hasdiff_nonid) ==
    IF ~hasdiff THEN <<>>
    ELSE (IF hasdiff_nonid THEN ToStr(needed_separator_length(msg)) ELSE <<>>)
         \o (IF msg.obsolete THEN <<mark_obs>> ELSE <<>>)
         \o (IF msg.fuzzy THEN <<mark_fuzz>> ELSE <<>>)

RECURSIVE AppendTags_allblocks(_, _, _, _, _, _)
AppendTags_allblocks(amsg, atype, tags, k, modstr_wsep, modstr) ==
    IF k > Len(tags) THEN amsg
    ELSE LET field == IF tags[k] # <<>> THEN atype \o <<atag_sep>> \o tags[k]
                      ELSE atype
         IN  AppendTags_allblocks(asc_append_field(amsg, field, modstr_wsep),
                                  atype, tags, k + 1, modstr_wsep, modstr)

RECURSIVE AppendTags(_, _, _, _, _, _)
\* The loop over atags or [""]: the first line carries the trailing block.
AppendTags(amsg, atype, tags, k, modstr_wsep, modstr) ==
    IF k > Len(tags) THEN amsg
    ELSE LET field == IF tags[k] # <<>> THEN atype \o <<atag_sep>> \o tags[k]
                      ELSE atype
         IN  AppendTags(asc_append_field(amsg, field,
                                         IF k = 1 THEN modstr_wsep ELSE modstr),
                        atype, tags, k + 1, modstr_wsep, modstr)

\* ascribe_msg_any(msg, acat, atype, atags, user, config, dt): the shadow
\* catalog after the call; raised when reconstructing the record's history
\* raised, and then the catalog is as before.
ascribe_msg_any(msg, acat_, atype, atags, user, users, dt) ==
    LET stored(acat1, idx, rhistory, hasdiff_nonid, amsg1) ==
            [raised |-> FALSE,
             acat |-> [acat1 EXCEPT ![idx] =
                          [(IF hasdiff_nonid
                            THEN add_nonid(amsg1, msg, needed_separator_length(msg),
                                           rhistory)
                            ELSE amsg1)
                           EXCEPT !.fuzzy = msg.fuzzy, !.obsolete = msg.obsolete]]]
        lined(acat1, idx, amsg, rhistory, hasdiff_nonid, modstr, wsep) ==
            stored(acat1, idx, rhistory, hasdiff_nonid,
                   AppendTags(amsg, atype, IF atags # <<>> THEN atags ELSE << <<>> >>, 1,
                              IF wsep # <<>> THEN modstr \o <<" ", "|", " ">> \o wsep
                              ELSE modstr,
                              modstr))
        compared(acat1, idx, amsg, rhistory, hasdiff_state, hasdiff_nonid) ==
            lined(acat1, idx, amsg, rhistory, hasdiff_nonid,
                  user \o <<" ", "|", " ">> \o format_datetime(dt),
                  asc_wsep(msg, hasdiff_nonid \/ hasdiff_state, hasdiff_nonid))
        reversed(acat1, idx, amsg, rhistory) ==
            compared(acat1, idx, amsg, rhistory,
                     IF rhistory # <<>>
                     THEN MsgState(rhistory[Len(rhistory)].msg) # MsgState(msg)
                     ELSE TRUE,
                     IF rhistory # <<>>
                     THEN has_nonid_diff(rhistory[Len(rhistory)].msg, msg)
                     ELSE TRUE)
        collected(acat1, idx, col) ==
            IF col.raised THEN [raised |-> TRUE, acat |-> acat_]
            ELSE reversed(acat1, idx, acat1[idx], Reverse(col.history))
        opened(acat1, idx) ==
            collected(acat1, idx, asc_collect_history_single(acat1[idx], users))
        located(idx0) ==
            opened(IF idx0 = 0
                   THEN Append(acat_, [NewMessage EXCEPT !.msgctxt = msg.msgctxt,
                                                         !.msgid = msg.msgid])
                   ELSE acat_,
                   IF idx0 = 0 THEN Len(acat_) + 1 ELSE idx0)
    IN  located(AcatIndex(acat_, msg))

\* ------------------------------------------------------------------------
\* History reconstruction across records.

asc_eq(msg1, msg2) ==
    /\ MsgState(msg1) = MsgState(msg2)
    /\ LET check_fields == IF msg1.fuzzy THEN nonid_fields_eq_fuzzy
                           ELSE nonid_fields_eq_nonfuzzy
       IN  \A k \in 1..Len(check_fields) :
               msg1[check_fields[k]] = msg2[check_fields[k]]

\* The part of an activation of asc_collect_history_w after the check of
\* the keys seen, on w.cur: w is the traversal
\* state (message looked up, bounding entry, keys seen, history so far).
\* The recursive call is the last thing an activation does and its result
\* is appended to the caller's list, so the activations run one after
\* another on a growing list.
asc_collect_history_w_read(w, acat_, users, shallow) ==
    LET seen1 == w.seen \cup {MsgKey(w.cur)}
        pivoted(own, amsg, after) ==
            IF (shallow /\ w.depth = 0)
               \/ ~(amsg.fuzzy /\ amsg.msgid_previous # None
                                /\ amsg.msgid_previous # Some(<<>>))
            THEN [w EXCEPT !.pc = "done", !.seen = seen1,
                           !.history = @ \o own, !.depth = @ + 1]
            ELSE [w EXCEPT !.cur = [NewMessage EXCEPT
                                       !.msgctxt = amsg.msgctxt_previous,
                                       !.msgid = amsg.msgid_previous],
                           !.before = after, !.seen = seen1,
                           !.history = @ \o own, !.depth = @ + 1]
        bounded(own) ==
            pivoted(own,
                    IF own # <<>> THEN own[Len(own)].msg ELSE w.cur,
                    IF own # <<>> THEN Some(own[Len(own)]) ELSE w.before)
        collected(col) ==
            IF col.raised THEN [w EXCEPT !.pc = "raised", !.seen = seen1]
            ELSE bounded(SelectSeq(col.history,
                             LAMBDA a : w.before = None
                                        \/ Instant(a.date[1])
                                            <= Instant(w.before[1].date[1])))
        located(idx) ==
            collected(IF idx # 0 THEN asc_collect_history_single(acat_[idx], users)
                      ELSE [raised |-> FALSE, history |-> <<>>])
    IN  located(AcatIndex(acat_, w.cur))

asc_collect_history_w_step_unguarded(w, acat_, users, shallow) ==
    asc_collect_history_w_read(w, acat_, users, shallow)

\* One activation: it returns at once on a key seen before in the chain.
asc_collect_history_w_step(w, acat_, users, shallow) ==
    IF MsgKey(w.cur) \in w.seen THEN [w EXCEPT !.pc = "done"]
    ELSE asc_collect_history_w_read(w, acat_, users, shallow)

WalkStart(msg) ==
    [pc |-> "walk", cur |-> msg, before |-> None, seen |-> {},
     history |-> <<>>, depth |-> 0]

RECURSIVE WalkRun(_, _, _, _)
WalkRun(w, acat_, users, shallow) ==
    IF w.pc # "walk" THEN w
    ELSE WalkRun(asc_collect_history_w_step(w, acat_, users, shallow),
                 acat_, users, shallow)

\* asc_collect_history_w(msg, acat, config, None, set(), shallow)
asc_collect_history_w(msg, acat_, users, shallow) ==
    WalkRun(WalkStart(msg), acat_, users, shallow)

\* The entry put in front for a message that is not ascribed.
UnascribedEntry(msg) ==
    [user |-> None, type |-> ATYPE_MOD, tag |-> <<>>, date |-> None, slen |-> 0,
     fuzz |-> FALSE, obs |-> FALSE, msg |-> msg, pos |-> 0]

asc_collect_history_head_ifempty(msg, h0) ==
    LET marked(h1) == [i \in 1..Len(h1) |-> [h1[i] EXCEPT !.pos = i]]
    IN  marked(IF h0 = <<>> THEN <<UnascribedEntry(msg)>> \o h0 ELSE h0)

\* What asc_collect_history does with the list asc_collect_history_w
\* returned (nomrg, hfilter and addrem at their defaults): the entry for an
\* unascribed message in front, then the position markers.
asc_collect_history_head(msg, h0) ==
    LET marked(h1) == [i \in 1..Len(h1) |-> [h1[i] EXCEPT !.pos = i]]
    IN  marked(IF h0 = <<>> \/ ~asc_eq(msg, h0[1].msg)
               THEN <<UnascribedEntry(msg)>> \o h0 ELSE h0)

\* asc_collect_history(msg, acat, config, shallow=shallow)
asc_collect_history(msg, acat_, users, shallow) ==
    LET headed(w) ==
            [raised |-> w.pc = "raised",
             history |-> IF w.pc = "raised" THEN <<>>
                         ELSE asc_collect_history_head(msg, w.history)]
    IN  headed(asc_collect_history_w(msg, acat_, users, shallow))

\* ------------------------------------------------------------------------
\* Compound selector (build_selector). A Python result is written as its
\* repr: "True", "False", "None" or a decimal index.

Falsy(r) == r \in {"False", "None", "0"}

cselector_step_exhausting(e) ==
    LET called(res) ==
            [e EXCEPT !.res = res,
                      !.calls = Append(@, e.i),
                      !.i = @ + 1,
                      !.pc = IF e.i = Len(e.selectors) THEN "returned" ELSE "loop"]
    IN  called(e.selectors[e.i][e.x])

\* One iteration of the loop in cselector over component i: the component
\* is called on the arguments, its result kept, and the loop left when the
\* result is falsy or the components are used up.
cselector_step(e) ==
    LET called(res) ==
            [e EXCEPT !.res = res,
                      !.calls = Append(@, e.i),
                      !.i = @ + 1,
                      !.pc = IF Falsy(res) \/ e.i = Len(e.selectors)
                             THEN "returned" ELSE "loop"]
    IN  called(e.selectors[e.i][e.x])

\* Entry into cselector(*a) of build_selector(selspecs, hist): res = res0,
\* which is returned at once when there is no component.
cselector_call(selectors, hist, x) ==
    [selectors |-> selectors, hist |-> hist, x |-> x, i |-> 1,
     res |-> IF hist THEN "None" ELSE "False", calls |-> <<>>,
     pc |-> IF selectors = <<>> THEN "returned" ELSE "loop"]

\* The registry of selector factories: the name and whether the selector
\* can be used as a history selector.
xm_selector_factories ==
    {
      <<<<"a", "n", "y">>, FALSE>>,
      <<<<"a", "c", "t", "i", "v", "e">>, FALSE>>,
      <<<<"c", "u", "r", "r", "e", "n", "t">>, FALSE>>,
      <<<<"b", "r", "a", "n", "c", "h">>, FALSE>>,
      <<<<"u", "n", "a", "s", "c">>, FALSE>>,
      <<<<"f", "e", "x", "p", "r">>, FALSE>>,
      <<<<"e">>, FALSE>>,
      <<<<"l">>, FALSE>>,
      <<<<"e", "s", "p", "a", "n">>, FALSE>>,
      <<<<"l", "s", "p", "a", "n">>, FALSE>>,
      <<<<"h", "e", "x", "p", "r">>, TRUE>>,
      <<<<"a", "s", "c">>, TRUE>>,
      <<<<"m", "o", "d">>, TRUE>>,
      <<<<"m", "o", "d", "a", "r">>, TRUE>>,
      <<<<"m", "o", "d", "a", "m">>, TRUE>>,
      <<<<"m", "o", "d", "a", "r", "m">>, TRUE>>,
      <<<<"t", "m", "o", "d", "a", "r">>, TRUE>>,
      <<<<"r", "e", "v">>, TRUE>>,
      <<<<"r", "e", "v", "b", "m">>, TRUE>>,
      <<<<"m", "o", "d", "a", "f", "t", "e", "r">>, TRUE>>
    }

build_selector_negating(selspecs, hist, factories) ==
    LET ident(c) ==
            c \in {"a", "b", "c", "d", "e", "f", "g", "h", "i", "j", "k", "l", "m",
                   "n", "o", "p", "q", "r", "s", "t", "u", "v", "w", "x", "y", "z",
                   "0", "1", "2", "3", "4", "5", "6", "7", "8", "9", "_", "-"}
        failed(what, sname) == [error |-> Some(<<what, sname>>), selector |-> None]
        made(sname, sargs, negated, found) ==
            IF found = {} THEN failed("unknown", sname)
            ELSE IF hist /\ \E e \in found : ~e[2] THEN failed("cannot_hist", sname)
            ELSE [error |-> None,
                  selector |-> Some([sname |-> sname, sargs |-> sargs,
                                     negated |-> negated])]
        named(sname, sargs, negated) ==
            made(sname, sargs, negated, {e \in factories : e[1] = sname})
        listed(lst) ==
            named(IF lst[1] # <<>> /\ lst[1][1] = "n" THEN Tail(lst[1]) ELSE lst[1],
                  Tail(lst),
                  lst[1] # <<>> /\ lst[1][1] = "n")
        component(selspec, seps) ==
            listed(Split(selspec,
                         IF seps = {} THEN ":"
                         ELSE selspec[CHOOSE p \in seps : \A q \in seps : p <= q]))
        compiled(comps, bad) ==
            IF bad # {}
            THEN [error |-> comps[CHOOSE k \in bad : \A j \in bad : k <= j].error,
                  selector |-> None]
            ELSE [error |-> None,
                  selector |-> Some([selectors |-> [k \in 1..Len(comps) |->
                                                        comps[k].selector[1]],
                                     res0 |-> IF hist THEN "None" ELSE "False"])]
        checked(comps) == compiled(comps, {k \in 1..Len(comps) : comps[k].error # None})
    IN  checked([k \in 1..Len(selspecs) |->
                    component(selspecs[k],
                              {p \in 1..Len(selspecs[k]) : ~ident(selspecs[k][p])})])

\* build_selector(selspecs, hist): the compound of the components compiled
\* from the specifications, or the error of the first specification that is
\* refused; error() ends the program, so that nothing is returned then. A
\* component is the factory's selector by the name and the arguments it was
\* made from, negated or not.
build_selector(selspecs, hist, factories) ==
    LET ident(c) ==
            c \in {"a", "b", "c", "d", "e", "f", "g", "h", "i", "j", "k", "l", "m",
                   "n", "o", "p", "q", "r", "s", "t", "u", "v", "w", "x", "y", "z",
                   "0", "1", "2", "3", "4", "5", "6", "7", "8", "9", "_", "-"}
        failed(what, sname) == [error |-> Some(<<what, sname>>), selector |-> None]
        made(sname, sargs, negated, found) ==
            IF found = {} THEN failed("unknown", sname)
            ELSE IF hist /\ \E e \in found : ~e[2] THEN failed("cannot_hist", sname)
            ELSE IF hist /\ negated THEN failed("negated", sname)
            ELSE [error |-> None,
                  selector |-> Some([sname |-> sname, sargs |-> sargs,
                                     negated |-> negated])]
        named(sname, sargs, negated) ==
            made(sname, sargs, negated, {e \in factories : e[1] = sname})
        listed(lst) ==
            named(IF lst[1] # <<>> /\ lst[1][1] = "n" THEN Tail(lst[1]) ELSE lst[1],
                  Tail(lst),
                  lst[1] # <<>> /\ lst[1][1] = "n")
        component(selspec, seps) ==
            listed(Split(selspec,
                         IF seps = {} THEN ":"
                         ELSE selspec[CHOOSE p \in seps : \A q \in seps : p <= q]))
        compiled(comps, bad) ==
            IF bad # {}
            THEN [error |-> comps[CHOOSE k \in bad : \A j \in bad : k <= j].error,
                  selector |-> None]
            ELSE [error |-> None,
                  selector |-> Some([selectors |-> [k \in 1..Len(comps) |->
                                                        comps[k].selector[1]],
                                     res0 |-> IF hist THEN "None" ELSE "False"])]
        checked(comps) == compiled(comps, {k \in 1..Len(comps) : comps[k].error # None})
    IN  checked([k \in 1..Len(selspecs) |->
                    component(selspecs[k],
                              {p \in 1..Len(selspecs[k]) : ~ident(selspecs[k][p])})])

\* ------------------------------------------------------------------------
\* State.

VARIABLES
    acat,    \* the shadow catalog: the ascription records in catalog order
    log,     \* what was put into the shadow catalog so far: the calls of
             \* ascribe_msg_any with their arguments, or the comment lines
    walk,    \* the running or finished call of asc_collect_history
    parsed,  \* the result of the last call of asc_parse_ascriptions
    sel      \* the running or finished call of a compound selector

vars == <<acat, log, walk, parsed, sel>>

Idle == [pc |-> "idle"]

\* A live message of the catalog being ascribed.
LiveMsg(id, plural, strs, prev, comment, fuzzy, obsolete) ==
    [NewMessage EXCEPT !.msgid = Some(id), !.msgid_plural = plural, !.msgstr = strs,
                       !.msgid_previous = prev, !.manual_comment = comment,
                       !.fuzzy = fuzzy, !.obsolete = obsolete]

MaxWrites == 3
MaxTime == 1

Times == 0..MaxTime

KindMod == [atype |-> ATYPE_MOD, atags |-> <<>>]

InitWriter ==
    /\ acat = <<>>
    /\ log = <<>>
    /\ walk = Idle
    /\ parsed = Idle
    /\ sel = Idle

\* One call ascribe_msg_any(msg, acat, atype, atags, user, config, dt) for a
\* live message, a kind and a wall-clock time.
Ascribe(msgs, kinds, maxw) ==
    /\ Len(log) < maxw
    /\ walk = Idle
    /\ \E m \in msgs, k \in kinds, t \in Times :
          LET written(dt, r) ==
                  /\ acat' = r.acat
                  /\ log' = Append(log, [msg |-> m, atype |-> k.atype,
                                         atags |-> k.atags, user |-> <<"alice">>,
                                         dt |-> dt, raised |-> r.raised])
              at(dt) == written(dt, ascribe_msg_any(m, acat, k.atype, k.atags,
                                                    <<"alice">>, ConfigUsers, dt))
          IN  at([t |-> t, utcoff |-> 0])
    /\ UNCHANGED <<walk, parsed, sel>>

\* One call of ascribe_msg_any by one of several users, at the start time
\* of a run of the script that is not earlier than that of the run before.
AscribeBy(msgs, kinds, users, maxw) ==
    /\ Len(log) < maxw
    /\ walk = Idle
    /\ \E m \in msgs, k \in kinds, u \in users, t \in Times :
          LET written(dt, r) ==
                  /\ acat' = r.acat
                  /\ log' = Append(log, [msg |-> m, atype |-> k.atype,
                                         atags |-> k.atags, user |-> u,
                                         dt |-> dt, raised |-> r.raised])
              at(dt) == written(dt, ascribe_msg_any(m, acat, k.atype, k.atags,
                                                    u, ConfigUsers, dt))
          IN  /\ log # <<>> => t >= log[Len(log)].dt.t
              /\ at([t |-> t, utcoff |-> 0])
    /\ UNCHANGED <<walk, parsed, sel>>

\* The live messages ascribed in Spec: one identity whose translation,
\* plural forms, comment and fuzzy state change from write to write.
WriterMsgs ==
    { LiveMsg(<<"k">>, None, << <<"a">> >>, None, <<>>, FALSE, FALSE),
      LiveMsg(<<"k">>, Some(<<"p">>), << <<"b">>, <<"|", "~">> >>, Some(<<"q">>),
              << <<"c">>, <<"e", "1">> >>, TRUE, FALSE),
      LiveMsg(<<"k">>, None, << <<"b">> >>, None, <<>>, FALSE, FALSE) }

Next == Ascribe(WriterMsgs, {KindMod}, MaxWrites)

Spec == InitWriter /\ [][Next]_vars

\* The live messages ascribed in SpecAppend: two identities.
AppendMsgs ==
    { LiveMsg(<<"k">>, None, << <<"a">> >>, None, <<>>, FALSE, FALSE),
      LiveMsg(<<"k">>, Some(<<"p">>), << <<"b">>, <<"|", "~">> >>, Some(<<"q">>),
              << <<"c">>, <<"e", "1">> >>, TRUE, FALSE),
      LiveMsg(<<"j">>, None, << <<>> >>, None, << <<"c">> >>, FALSE, TRUE) }

NextAppend == Ascribe(AppendMsgs, {KindMod}, MaxWrites)

SpecAppend == InitWriter /\ [][NextAppend]_vars

\* ------------------------------------------------------------------------
\* Properties of the writer and of the reconstruction of one record.

IsPrefix(a, b) == Len(a) <= Len(b) /\ SubSeq(b, 1, Len(a)) = a

\* The tracked field values of a live message as the writer takes them: the
\* previous fields count only while the message is fuzzy.
LiveTracked(m) ==
    [f \in TrackedSet |-> set_from_sequence(get_as_sequence(m, f, FALSE), f)]

SnapTracked(m) == [f \in TrackedSet |-> m[f]]

\* C1: Round-trip. After any sequence of writes to a record, its history
\* is reconstructed without error and holds, for every write, a snapshot
\* whose tracked field values are the live values of that write.
C1_RoundTrip ==
    \A k \in 1..Len(acat) :
        LET col == asc_collect_history_single(acat[k], ConfigUsers)
        IN  /\ ~col.raised
            /\ \A w \in 1..Len(log) :
                   MsgKey(log[w].msg) = MsgKey(acat[k])
                   => \E i \in 1..Len(col.history) :
                          SnapTracked(col.history[i].msg) = LiveTracked(log[w].msg)

\* C5: Append-only record. A step adds at most one record, at the end and
\* only for a message whose identity was not in the shadow catalog; every
\* record keeps its place and identity, its old comment lines are a prefix
\* of the new ones, and the old stored string of every item of a tracked
\* field is a prefix of the new one.
C5_AppendOnlyStep ==
    /\ Len(acat') >= Len(acat)
    /\ Len(acat') <= Len(acat) + 1
    /\ Len(acat') = Len(acat) + 1
       => /\ Len(log') = Len(log) + 1
          /\ AcatIndex(acat, log'[Len(log')].msg) = 0
          /\ MsgKey(acat'[Len(acat')]) = MsgKey(log'[Len(log')].msg)
    /\ \A k \in 1..Len(acat) :
          /\ MsgKey(acat'[k]) = MsgKey(acat[k])
          /\ IsPrefix(acat[k].auto_comment, acat'[k].auto_comment)
          /\ \A f \in TrackedSet :
                LET old == get_as_sequence(acat[k], f, TRUE)
                    new == get_as_sequence(acat'[k], f, TRUE)
                IN  /\ Len(old) <= Len(new)
                    /\ \A i \in 1..Len(old) : IsPrefix(old[i], new[i])

C5_AppendOnly == [][C5_AppendOnlyStep]_vars

\* Two records, one of them written twice with its items grown.
C5_Witness ==
    /\ Len(acat) = 2
    /\ \E k \in 1..2 :
          /\ Len(acat[k].auto_comment) = 2
          /\ Len(acat[k].msgstr) = 2
          /\ Len(acat[k].manual_comment) > 2

\* C6: History order. The history of a record is its entries in descending
\* order of (timestamp, comment line): a later timestamp comes first, and
\* the entries of one timestamp come in the reverse of the order of their
\* comment lines.
C6_HistoryOrder ==
    \A k \in 1..Len(acat) :
        \A raw \in {asc_collect_entries(acat[k], ConfigUsers).history} :
        \A h \in {history_order(raw)} :
            LET ts(e) == Instant(e.date[1])
                At(l, t) == SelectSeq(l, LAMBDA e : ts(e) = t)
            IN  /\ h = asc_collect_history_single(acat[k], ConfigUsers).history
                /\ Len(h) = Len(raw)
                /\ \A i, j \in 1..Len(h) : i < j => ts(h[i]) >= ts(h[j])
                /\ \A i \in 1..Len(raw) :
                      At(h, ts(raw[i])) = Reverse(At(raw, ts(raw[i])))

\* Three different entries, the first written with the latest timestamp and
\* the other two with equal timestamps.
C6_Witness ==
    /\ Len(log) = 3
    /\ log[1].dt.t > log[2].dt.t
    /\ log[2].dt.t = log[3].dt.t
    /\ LET h == asc_collect_history_single(acat[1], ConfigUsers).history
       IN  Len(h) = 3 /\ h[1].msg # h[2].msg /\ h[2].msg # h[3].msg

\* ------------------------------------------------------------------------
\* The separator of one write, over messages whose texts hold markers.

MaxLen == 3

RECURSIVE Texts(_)
\* The texts of at most n characters over the marker characters and a letter.
Texts(n) ==
    IF n = 0 THEN {<<>>}
    ELSE LET shorter == Texts(n - 1)
         IN  shorter \cup {Append(s, c) : s \in shorter, c \in {"a", "|", "~"}}

SepMsgs ==
    { LiveMsg(<<"k">>, None, <<s>>, prev, cmt, fz, FALSE) :
        s \in Texts(MaxLen),
        prev \in {None, Some(<<"|", "~">>)},
        cmt \in {<<>>, << <<"|">>, <<"~">> >>, << <<"a">>, <<"|", "~", "~">> >>},
        fz \in BOOLEAN }

\* The first write of a record, for any of these messages.
NextSep == Ascribe(SepMsgs, {KindMod}, 1)

SpecSep == InitWriter /\ [][NextSep]_vars

\* The values add_nonid encodes for a live message, field by field.
EncodedValues(m) ==
    UNION {{get_as_sequence(m, f, FALSE)[i] :
                i \in 1..Len(get_as_sequence(m, f, FALSE))} : f \in TrackedSet}

\* The separator length an ascription line records.
LineSeplen(cmnt) == asc_parse_line(cmnt, ConfigUsers, None, None).asc[1].slen

\* C2: Separator safety. The marker of the length recorded for a write is
\* in none of the values encoded in that write, its first occurrence in
\* value + marker is at the end of the value, and the values decoded from
\* the record are the encoded ones.
C2_SeparatorSafety ==
    Len(log) = 1 =>
        LET m == log[1].msg
            L == LineSeplen(acat[1].auto_comment[1])
            shead == field_separator_head(L)
            col == asc_collect_history_single(acat[1], ConfigUsers)
        IN  /\ L >= 1
            /\ \A v \in EncodedValues(m) :
                  /\ ~Contains(v, shead)
                  /\ Find(v \o shead, shead, 0) = Len(v)
            /\ ~col.raised
            /\ Len(col.history) = 1
            /\ SnapTracked(col.history[1].msg) = LiveTracked(m)

\* A write whose comment, joined by a newline, needs a marker of length 3
\* and whose translation ends in the head of the marker.
C2_Witness ==
    /\ Len(log) = 1
    /\ log[1].msg.manual_comment = << <<"a">>, <<"|", "~", "~">> >>
    /\ log[1].msg.msgstr = << <<"|", "~", "|">> >>
    /\ LineSeplen(acat[1].auto_comment[1]) = 3

\* C3: Separator minimality. The length recorded for a write is the least
\* one whose marker is in none of the values encoded in that write: the
\* marker of every shorter length is in one of them.
C3_SeparatorMinimal ==
    Len(log) = 1 =>
        LET m == log[1].msg
            L == LineSeplen(acat[1].auto_comment[1])
        IN  /\ \A v \in EncodedValues(m) : ~Contains(v, field_separator_head(L))
            /\ \A L1 \in 1..(L - 1) :
                  \E v \in EncodedValues(m) : Contains(v, field_separator_head(L1))

\* ------------------------------------------------------------------------
\* Writes that change nothing, with and without tags.

KindRev == [atype |-> ATYPE_REV, atags |-> << <<"t1">>, <<"t2">> >>]

MaxTagWrites == 2

\* The live messages ascribed in SpecTags: one identity, plain, obsolete or
\* fuzzy.
TagMsgs ==
    { LiveMsg(<<"k">>, None, << <<"a">> >>, None, <<>>, FALSE, FALSE),
      LiveMsg(<<"k">>, None, << <<"a">> >>, None, <<>>, FALSE, TRUE),
      LiveMsg(<<"k">>, Some(<<"p">>), << <<"b">>, <<"|", "~">> >>, Some(<<"q">>),
              << <<"c">>, <<"e", "1">> >>, TRUE, FALSE) }

NextTags == Ascribe(TagMsgs, {KindMod, KindRev}, MaxTagWrites)

SpecTags == InitWriter /\ [][NextTags]_vars

\* The number of descriptor separators of a comment line.
Bars(cmnt) == Cardinality({i \in 1..Len(cmnt) : cmnt[i] = "|"})

\* The ascription type and tag a comment line starts with.
LineHead(cmnt) == SubSeq(cmnt, 1, Find(cmnt, <<fld_sep>>, 0))

\* The write w finds the record at idx with a newest snapshot of the state
\* and the tracked field values of its live message.
NothingDiffers(w, idx) ==
    /\ idx # 0
    /\ ~w.raised
    /\ LET col == asc_collect_history_single(acat[idx], ConfigUsers)
       IN  /\ col.history # <<>>
           /\ MsgState(col.history[1].msg) = MsgState(w.msg)
           /\ SnapTracked(col.history[1].msg) = LiveTracked(w.msg)

\* C4: No-op idempotence. A write whose live message has the state and the
\* tracked field values of the newest reconstructed snapshot appends one
\* line per tag, each with the user and the time stamp as its only
\* descriptors, leaves the stored strings of the record and every other
\* record as they were, and the entries reconstructed before, snapshots
\* included, are the first entries reconstructed after.
C4_NoopStep ==
    LET w == log'[Len(log')]
        idx == AcatIndex(acat, w.msg)
        n == Len(acat[idx].auto_comment)
        ntags == IF w.atags = <<>> THEN 1 ELSE Len(w.atags)
        old == asc_collect_entries(acat[idx], ConfigUsers)
        new == asc_collect_entries(acat'[idx], ConfigUsers)
    IN  (Len(log') = Len(log) + 1 /\ NothingDiffers(w, idx)) =>
            /\ Len(acat') = Len(acat)
            /\ \A k \in 1..Len(acat) : k # idx => acat'[k] = acat[k]
            /\ IsPrefix(acat[idx].auto_comment, acat'[idx].auto_comment)
            /\ Len(acat'[idx].auto_comment) = n + ntags
            /\ \A j \in 1..ntags :
                  LET line == acat'[idx].auto_comment[n + j]
                  IN  /\ Bars(line) = 1
                      /\ LineHead(line)
                            = IF w.atags = <<>> THEN w.atype
                              ELSE w.atype \o <<atag_sep>> \o w.atags[j]
                      /\ asc_parse_line(line, ConfigUsers, Some(FALSE), Some(FALSE)).asc[1].slen = 0
            /\ \A f \in TrackedSet : acat'[idx][f] = acat[idx][f]
            /\ ~new.raised
            /\ IsPrefix(old.history, new.history)

C4_Noop == [][C4_NoopStep]_vars

\* The fuzzy message written, then reviewed under two tags with nothing
\* changed: three comment lines, the two of the review without a block.
C4_Witness ==
    /\ Len(log) = 2
    /\ log[1].msg = log[2].msg
    /\ log[1].msg.fuzzy
    /\ log[1].dt.t <= log[2].dt.t
    /\ log[2].atype = ATYPE_REV
    /\ Len(acat[1].auto_comment) = 3
    /\ Bars(acat[1].auto_comment[1]) = 2
    /\ Bars(acat[1].auto_comment[2]) = 1
    /\ Bars(acat[1].auto_comment[3]) = 1

\* ------------------------------------------------------------------------
\* Reconstruction across records, one activation of asc_collect_history_w
\* per step.

MaxWalkWrites == 2

\* The live messages of SpecWalk: two identities whose fuzzy versions name
\* each other as the previous identity, and a translated one.
WalkMsgs ==
    { LiveMsg(<<"k">>, None, << <<"a">> >>, Some(<<"j">>), <<>>, TRUE, FALSE),
      LiveMsg(<<"j">>, None, << <<"a">> >>, Some(<<"k">>), <<>>, TRUE, FALSE),
      LiveMsg(<<"k">>, None, << <<"a">> >>, None, <<>>, FALSE, FALSE) }

\* asc_collect_history(msg, acat, config, shallow=shallow) is called.
StartWalk ==
    /\ walk = Idle
    /\ \E m \in WalkMsgs, shallow \in BOOLEAN :
          walk' = [pc |-> "walk", live |-> m, shallow |-> shallow,
                   w |-> WalkStart(m), history |-> <<>>]
    /\ UNCHANGED <<acat, log, parsed, sel>>

\* The next activation of asc_collect_history_w runs.
WalkStep ==
    /\ walk.pc = "walk"
    /\ walk.w.pc = "walk"
    /\ walk' = [walk EXCEPT !.w = asc_collect_history_w_step(walk.w, acat, ConfigUsers,
                                                             walk.shallow)]
    /\ UNCHANGED <<acat, log, parsed, sel>>

\* asc_collect_history_w has returned: the head is put in front and the
\* positions are marked, or the exception goes on to the caller.
WalkFinish ==
    /\ walk.pc = "walk"
    /\ walk.w.pc # "walk"
    /\ walk' = IF walk.w.pc = "raised" THEN [walk EXCEPT !.pc = "raised"]
               ELSE [walk EXCEPT !.pc = "returned",
                                 !.history = asc_collect_history_head(walk.live,
                                                                      walk.w.history)]
    /\ UNCHANGED <<acat, log, parsed, sel>>

NextWalk ==
    \/ Ascribe(WalkMsgs, {KindMod}, MaxWalkWrites)
    \/ StartWalk
    \/ WalkStep
    \/ WalkFinish

SpecWalk == InitWriter /\ [][NextWalk]_vars

\* The number of entries of a history whose snapshot has the given key.
EntriesOf(h, key) == Cardinality({i \in 1..Len(h) : MsgKey(h[i].msg) = key})

\* Every activation that read a record read one of a key not seen before,
\* at most the records of the catalog and two keys more were looked up, and
\* a record has no more entries in the history than it holds.
C7_OnceEach ==
    walk.pc # "idle" =>
        /\ walk.w.depth = Cardinality(walk.w.seen)
        /\ walk.w.depth <= Len(acat) + 2
        /\ \A k \in 1..Len(acat) :
              EntriesOf(walk.w.history, MsgKey(acat[k]))
                  <= Len(asc_collect_history_single(acat[k], ConfigUsers).history)
        /\ \A i \in 1..Len(walk.w.history) :
              AcatIndex(acat, walk.w.history[i].msg) # 0

\* An activation on a key seen before ends the walk with the history as
\* collected so far.
C7_RevisitStep ==
    (walk.pc = "walk" /\ walk.w.pc = "walk" /\ MsgKey(walk.w.cur) \in walk.w.seen)
    => /\ walk'.w.pc = "done"
       /\ walk'.w.history = walk.w.history
       /\ walk'.w.seen = walk.w.seen

\* An activation either ends the walk or has read the record of one more
\* key: the number of keys read grows with every activation that goes on.
C7_ProgressStep ==
    (walk.pc = "walk" /\ walk.w.pc = "walk")
    => \/ walk'.w.pc # "walk"
       \/ walk'.w.depth = walk.w.depth + 1

\* C7: Cycle termination. Every call of asc_collect_history_w returns, also
\* on a catalog whose fuzzy previous identities lead back to an identity
\* visited before: each activation that does not end the walk reads the
\* record of a key not read before, and no more keys are read than the
\* catalog has records and two more. The activation that comes back to an
\* identity visited before returns what was collected so far, and no
\* record gives its entries to one history more than once.
C7_CycleTermination ==
    /\ []C7_OnceEach
    /\ [][C7_RevisitStep]_vars
    /\ [][C7_ProgressStep]_vars

\* A walk ended by a revisit: the oldest entry collected is fuzzy and names
\* as its previous identity one whose record gave an entry before it.
C7_Witness ==
    /\ walk.pc = "returned"
    /\ Len(walk.w.history) = 2
    /\ LET last == walk.w.history[2].msg
       IN  /\ last.fuzzy
           /\ last.msgid_previous = walk.w.history[1].msg.msgid
           /\ MsgKey(walk.w.cur) = MsgKey(walk.w.history[1].msg)
           /\ MsgKey(last) # MsgKey(walk.w.cur)

\* The entry put in front of the history of a message that is not ascribed.
IsSynthetic(e, live) == e.user = None /\ e.type = ATYPE_MOD /\ e.msg = live

\* One history is the other but for the position marks.
SameEntries(h, g) ==
    /\ Len(h) = Len(g)
    /\ \A i \in 1..Len(h) : [h[i] EXCEPT !.pos = 0] = [g[i] EXCEPT !.pos = 0]

\* C8: Unascribed head. The history asc_collect_history returns is the
\* reconstructed one with an entry of user None, type modified and the live
\* message as snapshot in front exactly when the reconstructed history is
\* empty or the live message is not asc_eq to its newest snapshot; for a
\* translated message with no record it is that one entry.
C8_UnascribedHead ==
    walk.pc = "returned" =>
        LET h0 == walk.w.history
            h == walk.history
            live == walk.live
            unascribed == h0 = <<>> \/ ~asc_eq(live, h0[1].msg)
        IN  /\ unascribed =>
                  /\ Len(h) = Len(h0) + 1
                  /\ IsSynthetic(h[1], live)
                  /\ SameEntries(Tail(h), h0)
            /\ ~unascribed =>
                  /\ SameEntries(h, h0)
                  /\ \A i \in 1..Len(h) : h[i].user # None
            /\ (AcatIndex(acat, live) = 0 /\ MsgState(live) = <<FALSE, st_tran>>)
                  => Len(h) = 1 /\ IsSynthetic(h[1], live)

\* A history returned with the head in front of two reconstructed entries:
\* the live message is not the newest snapshot of its record.
C8_Witness ==
    /\ walk.pc = "returned"
    /\ Len(walk.w.history) = 2
    /\ Len(walk.history) = 3
    /\ walk.history[1].user = None
    /\ walk.history[2].user # None

\* ------------------------------------------------------------------------
\* Parsing the comment lines of a record the tool did not write alone.

MaxLines == 2

\* A comment line: the type (and tag), then the descriptors.
Line(head, descs) == head \o <<fld_sep, " ">> \o Join(descs, <<" ", "|", " ">>)

Stamp(t) == format_datetime([t |-> t, utcoff |-> 0])

\* A comment line with what it says when it is well formed.
Shape(line, ok, type, tag, user, t, slen) ==
    [line |-> line, ok |-> ok, type |-> type, tag |-> tag, user |-> user,
     t |-> t, slen |-> slen]

Malformed(line) == Shape(line, FALSE, <<>>, <<>>, <<>>, 0, 0)

\* The comment lines a record may hold: well formed ones of both types,
\* with and without tag and trailing block, and one of each malformation
\* asc_parse_ascriptions warns about.
LineShapes ==
    { Shape(Line(ATYPE_MOD, << <<"alice">>, Stamp(1), <<"1">> >>),
            TRUE, ATYPE_MOD, <<>>, <<"alice">>, 1, 1),
      Shape(Line(ATYPE_MOD, << <<"alice">>, Stamp(0), <<"2", mark_fuzz>> >>),
            TRUE, ATYPE_MOD, <<>>, <<"alice">>, 0, 2),
      Shape(Line(ATYPE_MOD, << <<"bob">>, Stamp(1) >>),
            TRUE, ATYPE_MOD, <<>>, <<"bob">>, 1, 0),
      Shape(Line(ATYPE_REV, << <<"bob">>, Stamp(1) >>),
            TRUE, ATYPE_REV, <<>>, <<"bob">>, 1, 0),
      Shape(Line(ATYPE_REV \o <<atag_sep, "t1">>, << <<"alice">>, Stamp(0) >>),
            TRUE, ATYPE_REV, <<"t1">>, <<"alice">>, 0, 0),
      Malformed(ATYPE_MOD \o <<" ", "alice", " ", "|", " ">> \o Stamp(1)),
      Malformed(Line(ATYPE_MOD, << <<"alice">> >>)),
      Malformed(Line(ATYPE_MOD, << <<"alice">>, Stamp(1), <<"1">>, <<"1">> >>)),
      Malformed(Line(ATYPE_MOD, << <<>>, Stamp(1), <<"1">> >>)),
      Malformed(Line(ATYPE_MOD, << <<"ghost">>, Stamp(1), <<"1">> >>)),
      Malformed(Line(ATYPE_MOD, << <<"alice">>, <<"x">>, <<"1">> >>)),
      Malformed(Line(ATYPE_MOD, << <<"alice">>, Stamp(1), <<"x">> >>)) }

\* A shadow catalog with one record that has no comment line yet.
InitParse ==
    /\ acat = << [NewMessage EXCEPT !.msgid = Some(<<"k">>)] >>
    /\ log = <<>>
    /\ walk = Idle
    /\ parsed = Idle
    /\ sel = Idle

\* The record gets one more comment line.
PutLine ==
    /\ parsed = Idle
    /\ Len(log) < MaxLines
    /\ \E d \in LineShapes :
          /\ acat' = [acat EXCEPT ![1].auto_comment = Append(@, d.line)]
          /\ log' = Append(log, d)
    /\ UNCHANGED <<walk, parsed, sel>>

\* asc_parse_ascriptions and asc_collect_history_single are called on the
\* record.
Parse ==
    /\ parsed = Idle
    /\ parsed' = [pc |-> "parsed",
                  r |-> asc_parse_ascriptions(acat[1], ConfigUsers),
                  single |-> asc_collect_history_single(acat[1], ConfigUsers)]
    /\ UNCHANGED <<acat, log, walk, sel>>

NextParse == PutLine \/ Parse

SpecParse == InitParse /\ [][NextParse]_vars

\* The positions of the comment lines of the given kind.
RECURSIVE LinesWhere(_, _, _)
LinesWhere(lines, ok, k) ==
    IF k > Len(lines) THEN <<>>
    ELSE (IF lines[k].ok = ok THEN <<k>> ELSE <<>>) \o LinesWhere(lines, ok, k + 1)

\* C9: Malformed lines are skipped and never abort. Parsing the record does
\* not raise; it warns about exactly the malformed lines and returns the
\* well-formed lines in their order, each with its user, type, tag, time
\* stamp and separator length; a record without a well-formed line has an
\* empty history.
C9_MalformedSkipped ==
    parsed # Idle =>
        LET good == LinesWhere(log, TRUE, 1)
        IN  /\ ~parsed.r.raised
            /\ parsed.r.skipped = LinesWhere(log, FALSE, 1)
            /\ Len(parsed.r.ascripts) = Len(good)
            /\ \A i \in 1..Len(good) :
                  LET a == parsed.r.ascripts[i]
                      d == log[good[i]]
                  IN  /\ a.user = d.user
                      /\ a.type = d.type
                      /\ a.tag = d.tag
                      /\ a.date = [t |-> d.t, utcoff |-> 0]
                      /\ a.slen = d.slen
            /\ good = <<>> => (~parsed.single.raised /\ parsed.single.history = <<>>)

\* ------------------------------------------------------------------------
\* The compound selector, one component per step.

MaxSel == 2

\* The argument tuples and the results of the component selectors: truth
\* values, None, and history indices.
SelArgs == {"m1", "m2"}
SelResults == {"True", "False", "None", "0", "2"}

\* The component selectors, each by its result on every argument tuple.
Selectors == {f \in [SelArgs -> SelResults] : f["m1"] # f["m2"] \/ f["m1"] = "True"}

RECURSIVE SelectorLists(_)
SelectorLists(n) ==
    IF n = 0 THEN {<<>>}
    ELSE LET shorter == SelectorLists(n - 1)
         IN  shorter \cup {Append(l, f) : l \in shorter, f \in Selectors}

\* The compound selector of a list of components is called on x.
InitSel ==
    /\ acat = <<>>
    /\ log = <<>>
    /\ walk = Idle
    /\ parsed = Idle
    /\ sel \in {cselector_call(l, hist, x) :
                    l \in SelectorLists(MaxSel), hist \in BOOLEAN, x \in SelArgs}

SelStep ==
    /\ sel.pc = "loop"
    /\ sel' = cselector_step(sel)
    /\ UNCHANGED <<acat, log, walk, parsed>>

NextSel == SelStep

SpecSel == InitSel /\ [][NextSel]_vars

\* The first component with a falsy result on x, the last one when none has.
StopAt(l, x) ==
    LET falsy == {i \in 1..Len(l) : Falsy(l[i][x])}
    IN  IF falsy = {} THEN Len(l) ELSE CHOOSE i \in falsy : \A j \in falsy : i <= j

\* C10: Selector AND-semantics. The compound selector calls its components
\* from the left, one after another up to the first with a falsy result and
\* none after it, and returns the result of the last one it called; of two
\* components A and B it returns A(x) when that is falsy and B(x)
\* otherwise. Without components it returns False, or None as a history
\* selector.
C10_SelectorAnd ==
    LET l == sel.selectors
        x == sel.x
    IN  /\ sel.calls = [i \in 1..Len(sel.calls) |-> i]
        /\ \A k \in 1..(Len(sel.calls) - 1) : ~Falsy(l[k][x])
        /\ sel.pc = "returned" =>
              /\ Len(sel.calls) = StopAt(l, x)
              /\ sel.res = IF l = <<>> THEN (IF sel.hist THEN "None" ELSE "False")
                            ELSE l[StopAt(l, x)][x]
              /\ Len(l) = 2 =>
                    sel.res = IF Falsy(l[1][x]) THEN l[1][x] ELSE l[2][x]

\* A compound of two components returned the falsy index 0 of the first
\* without calling the second, whose result would have been truthy.
C10_Witness ==
    /\ sel.pc = "returned"
    /\ Len(sel.selectors) = 2
    /\ sel.calls = <<1>>
    /\ sel.res = "0"
    /\ sel.selectors[2][sel.x] = "2"

\* ------------------------------------------------------------------------
\* Compiling selector specifications.

MaxSpecs == 2

\* The specifications given on the command line: every registered name,
\* plain and with the negation mark, with and without arguments, and a name
\* that is not registered.
SelSpecs ==
    {e[1] : e \in xm_selector_factories}
    \cup {<<"n">> \o e[1] : e \in xm_selector_factories}
    \cup {<<"n", "o", "n", "e">>, <<"a", "s", "c", ":", "a">>,
          <<"n", "m", "o", "d", "/", "a", "/", "b">>}

\* build_selector is called on a list of specifications, for a plain or a
\* history selector.
Compile ==
    /\ sel = Idle
    /\ \E selspecs \in UNION {[1..n -> SelSpecs] : n \in 0..MaxSpecs}, hist \in BOOLEAN :
          sel' = [pc |-> "compiled", selspecs |-> selspecs, hist |-> hist,
                  r |-> build_selector(selspecs, hist, xm_selector_factories)]
    /\ UNCHANGED <<acat, log, walk, parsed>>

NextCompile == Compile

SpecCompile == InitWriter /\ [][NextCompile]_vars

\* The specification is the negation mark, then the name of a selector
\* registered as a history selector, then arguments if any.
NegatesHistory(selspec) ==
    \E e \in xm_selector_factories :
        /\ e[2]
        /\ IsPrefix(<<"n">> \o e[1], selspec)
        /\ Len(selspec) > Len(e[1]) + 1 => selspec[Len(e[1]) + 2] \in {":", "/"}

\* The specification is a registered name with or without the negation
\* mark, then arguments if any.
Registered(selspec) ==
    \E e \in xm_selector_factories, mark \in {<<>>, <<"n">>} :
        /\ IsPrefix(mark \o e[1], selspec)
        /\ Len(selspec) > Len(mark \o e[1]) => selspec[Len(mark \o e[1]) + 1] \in {":", "/"}

IsSuffix(a, b) == Len(a) <= Len(b) /\ SubSeq(b, Len(b) - Len(a) + 1, Len(b)) = a

\* The tokens a write with the marker shead may add to item i of a field
\* whose live items are live.
WriteTokens(live, i, shead) ==
    IF i <= Len(live)
    THEN {live[i] \o shead}
         \cup {shead \o <<trsep_mod_eq>> \o ToStr(n) : n \in 0..Len(log)}
    ELSE {shead \o <<trsep_mod_none>>}

\* The separator length in the last comment line of a record just written.
WrittenSeplen(amsg) ==
    asc_parse_line(amsg.auto_comment[Len(amsg.auto_comment)], ConfigUsers,
                   Some(FALSE), Some(FALSE)).asc[1].slen

\* C12 as stated: a write that encodes the tracked fields puts its token,
\* then a newline, in front of the stored string of every item the record
\* had.
C12_PrependedStep ==
    LET w == log'[Len(log')]
        idx == AcatIndex(acat, w.msg)
        shead == field_separator_head(WrittenSeplen(acat'[idx]))
    IN  (Len(log') = Len(log) + 1 /\ ~w.raised /\ idx # 0
         /\ WrittenSeplen(acat'[idx]) # 0) =>
            \A f \in TrackedSet :
                LET old == get_as_sequence(acat[idx], f, TRUE)
                    new == get_as_sequence(acat'[idx], f, TRUE)
                    live == get_as_sequence(w.msg, f, FALSE)
                IN  \A i \in 1..Len(old) :
                        \E t \in WriteTokens(live, i, shead) :
                            new[i] = t \o <<NL>> \o old[i]

C12_TokensPrepended == [][C12_PrependedStep]_vars

\* C12, amended: a write that encodes the tracked fields puts a newline and
\* its token at the end of the stored string of every item the record had,
\* and its token at the end of every new item, so that the token of the
\* most recent write is the last one; decoding walks the string with one
\* forward cursor from the oldest comment line to the newest: the entries
\* decoded before the write are decoded the same after it, the entry of
\* the write comes after them, and an item whose token is the literal value
\* decodes to that value.
C12_AppendedStep ==
    LET w == log'[Len(log')]
        idx0 == AcatIndex(acat, w.msg)
        idx == AcatIndex(acat', w.msg)
        shead == field_separator_head(WrittenSeplen(acat'[idx]))
    IN  (Len(log') = Len(log) + 1 /\ ~w.raised /\ WrittenSeplen(acat'[idx]) # 0) =>
            \A dec \in {asc_collect_entries(acat'[idx], ConfigUsers)} :
            \A before \in {IF idx0 = 0 THEN <<>>
                           ELSE asc_collect_entries(acat[idx0], ConfigUsers).history} :
                /\ ~dec.raised
                /\ Len(dec.history) = Len(before) + 1
                /\ IsPrefix(before, dec.history)
                /\ \A f \in TrackedSet :
                      LET old == IF idx0 = 0 THEN <<>>
                                 ELSE get_as_sequence(acat[idx0], f, TRUE)
                          new == get_as_sequence(acat'[idx], f, TRUE)
                          live == get_as_sequence(w.msg, f, FALSE)
                          last == get_as_sequence(dec.history[Len(dec.history)].msg,
                                                  f, TRUE)
                      IN  /\ Len(new) = Max(Len(old), Len(live))
                          /\ \A i \in 1..Len(new) :
                                \E t \in WriteTokens(live, i, shead) :
                                    /\ i <= Len(old) => new[i] = old[i] \o <<NL>> \o t
                                    /\ i > Len(old) => IsSuffix(t, new[i])
                                    /\ (i <= Len(live) /\ t = live[i] \o shead)
                                       => i <= Len(last) /\ last[i] = live[i]

C12_TokensAppended == [][C12_AppendedStep]_vars

\* A record written three times, the translation changed and then changed
\* back: the stored string is the two literal tokens and the back-reference
\* in the order of the writes.
C12_Witness ==
    /\ Len(log) = 3
    /\ Len(acat) = 1
    /\ Len(acat[1].msgstr) = 2
    /\ \E L1, L2, L3 \in 1..3, n \in 0..1 :
          acat[1].msgstr[1] = <<"a">> \o field_separator_head(L1) \o <<NL>>
                              \o <<"b">> \o field_separator_head(L2) \o <<NL>>
                              \o field_separator_head(L3) \o <<trsep_mod_eq>> \o ToStr(n)

\* ------------------------------------------------------------------------
\* The back-reference a write chooses.

MaxRefWrites == 4

\* The live messages of SpecRef: one identity whose translation changes and
\* changes back, and then stays while a comment is added.
RefMsgs ==
    { LiveMsg(<<"k">>, None, << <<"a">> >>, None, <<>>, FALSE, FALSE),
      LiveMsg(<<"k">>, None, << <<"b">> >>, None, <<>>, FALSE, FALSE),
      LiveMsg(<<"k">>, None, << <<"a">> >>, None, << <<"c">> >>, FALSE, FALSE) }

NextRef == AscribeBy(RefMsgs, {KindMod}, {<<"alice">>}, MaxRefWrites)

SpecRef == InitWriter /\ [][NextRef]_vars

\* The token the write of the step added to item i, given the stored
\* strings of the item before and after.
AddedToken(old, new, i) == SubSeq(new[i], Len(old[i]) + 2, Len(new[i]))

\* The separator-bearing entries reconstructed from a record, oldest first.
ModEntries(amsg) ==
    SelectSeq(Reverse(asc_collect_history_single(amsg, ConfigUsers).history),
              LAMBDA a : a.slen # 0)

\* Item i of a field in a snapshot: None when the snapshot has no such item.
ItemValue(m, f, i) ==
    IF i <= Len(get_as_sequence(m, f, TRUE))
    THEN Some(get_as_sequence(m, f, TRUE)[i]) ELSE None

\* C13 as stated: a write that leaves an item with a value it had before
\* adds the back-reference to the nearest earlier write that changed the
\* item to that value, counted among the writes that changed the item.
C13_NearestStep ==
    LET w == log'[Len(log')]
        idx == AcatIndex(acat, w.msg)
    IN  (Len(log') = Len(log) + 1 /\ ~w.raised /\ idx # 0
         /\ WrittenSeplen(acat'[idx]) # 0) =>
            \A mods \in {ModEntries(acat[idx])} :
            \A f \in TrackedSet :
                LET old == get_as_sequence(acat[idx], f, TRUE)
                    new == get_as_sequence(acat'[idx], f, TRUE)
                    live == get_as_sequence(w.msg, f, FALSE)
                    shead == field_separator_head(WrittenSeplen(acat'[idx]))
                    val(k, i) == ItemValue(mods[k].msg, f, i)
                    changes(i) == {k \in 1..Len(mods) :
                                      k = 1 \/ val(k, i) # val(k - 1, i)}
                    same(i) == {k \in changes(i) : val(k, i) = Some(live[i])}
                    nearest(i) == CHOOSE k \in same(i) : \A j \in same(i) : j <= k
                IN  \A i \in 1..Min(Len(old), Len(live)) :
                        same(i) # {} =>
                            AddedToken(old, new, i)
                                = shead \o <<trsep_mod_eq>>
                                  \o ToStr(Cardinality({k \in changes(i) : k < nearest(i)}))

C13_NearestBackref == [][C13_NearestStep]_vars

\* C13, amended: a write that leaves an item with the value it has in the
\* snapshot of an earlier separator-bearing entry adds the back-reference
\* to the oldest such entry, counted among all separator-bearing entries of
\* the record in the order of their time stamps; otherwise it adds the
\* literal value.
C13_OldestStep ==
    LET w == log'[Len(log')]
        idx == AcatIndex(acat, w.msg)
    IN  (Len(log') = Len(log) + 1 /\ ~w.raised /\ idx # 0
         /\ WrittenSeplen(acat'[idx]) # 0) =>
            \A mods \in {ModEntries(acat[idx])} :
            \A f \in TrackedSet :
                LET old == get_as_sequence(acat[idx], f, TRUE)
                    new == get_as_sequence(acat'[idx], f, TRUE)
                    live == get_as_sequence(w.msg, f, FALSE)
                    shead == field_separator_head(WrittenSeplen(acat'[idx]))
                    same(i) == {k \in 1..Len(mods) :
                                   ItemValue(mods[k].msg, f, i) = Some(live[i])}
                    oldest(i) == CHOOSE k \in same(i) : \A j \in same(i) : k <= j
                IN  \A i \in 1..Min(Len(old), Len(live)) :
                        AddedToken(old, new, i)
                            = IF same(i) = {} THEN live[i] \o shead
                              ELSE shead \o <<trsep_mod_eq>> \o ToStr(oldest(i) - 1)

C13_OldestBackref == [][C13_OldestStep]_vars

\* The translation written as a, b, a and then left while the comment is
\* added: the last token refers to the first write, not to the third.
C13_Witness ==
    /\ Len(log) = 4
    /\ Len(acat) = 1
    /\ acat[1].manual_comment # <<>>
    /\ \E L4 \in 1..3 :
          acat[1].msgstr[1] = <<"a", "|", "~", NL, "b", "|", "~", NL, "|", "~", "e", "0", NL>>
                              \o field_separator_head(L4) \o <<trsep_mod_eq, "0">>

\* ------------------------------------------------------------------------
\* Two writes of one message by different users.

MaxPairWrites == 2

\* The live messages of SpecPair: one identity with one translation and two
\* comments, one of them with the marker in it, and with plural forms, with
\* and without a comment.
PairMsgs ==
    { LiveMsg(<<"k">>, None, << <<"a">> >>, None, << <<"c">> >>, FALSE, FALSE),
      LiveMsg(<<"k">>, None, << <<"a">> >>, None, << <<"d">>, <<"|", "~">> >>,
              FALSE, FALSE),
      LiveMsg(<<"k">>, Some(<<"p">>), << <<"a">>, <<"b">> >>, Some(<<"q">>),
              << <<"c">> >>, TRUE, FALSE),
      LiveMsg(<<"k">>, Some(<<"p">>), << <<"a">>, <<"b">> >>, None, <<>>,
              FALSE, FALSE) }

NextPair == AscribeBy(PairMsgs, {KindMod}, {<<"alice">>, <<"bob">>}, MaxPairWrites)

SpecPair == InitWriter /\ [][NextPair]_vars

\* C14: Two writes by different users, the second with the translation of
\* the first and another manual comment that is not empty: the second
\* comment line has the second user and a separator length above 0, the
\* token added to every translation item is the marker, then e0, and the
\* token at the end of the manual comment item is the new comment, then the
\* marker.
C14_PairStep ==
    LET w1 == log'[1]
        w2 == log'[2]
        line == asc_parse_line(acat'[1].auto_comment[2], ConfigUsers,
                               Some(FALSE), Some(FALSE))
        shead == field_separator_head(WrittenSeplen(acat'[1]))
        comment == Join(w2.msg.manual_comment, <<NL>>)
    IN  (Len(log) = 1 /\ Len(log') = 2 /\ w1.user # w2.user
         /\ w1.msg.msgstr = w2.msg.msgstr
         /\ w1.msg.manual_comment # w2.msg.manual_comment
         /\ w2.msg.manual_comment # <<>>) =>
            /\ ~w2.raised
            /\ Len(acat') = 1
            /\ Len(acat'[1].auto_comment) = 2
            /\ Bars(acat'[1].auto_comment[2]) = 2
            /\ line.what = "ok"
            /\ line.asc[1].user = w2.user
            /\ line.asc[1].slen > 0
            /\ ~Contains(comment, shead)
            /\ Len(acat'[1].msgstr) = Len(w2.msg.msgstr)
            /\ \A i \in 1..Len(w2.msg.msgstr) :
                  AddedToken(acat[1].msgstr, acat'[1].msgstr, i)
                      = shead \o <<trsep_mod_eq, "0">>
            /\ Len(get_as_sequence(acat'[1], "manual_comment", TRUE)) = 1
            /\ IsSuffix(comment \o shead,
                        get_as_sequence(acat'[1], "manual_comment", TRUE)[1])
            /\ w1.msg.manual_comment # <<>>
               => AddedToken(get_as_sequence(acat[1], "manual_comment", TRUE),
                             get_as_sequence(acat'[1], "manual_comment", TRUE), 1)
                      = comment \o shead

C14_PairTokens == [][C14_PairStep]_vars

\* alice wrote the message with one comment and bob with another that has
\* the marker of length 1 in it: the second line has length 2.
C14_Witness ==
    /\ Len(log) = 2
    /\ log[1].user = <<"alice">>
    /\ log[2].user = <<"bob">>
    /\ log[1].msg.msgstr = log[2].msg.msgstr
    /\ log[1].msg.manual_comment = << <<"c">> >>
    /\ log[2].msg.manual_comment = << <<"d">>, <<"|", "~">> >>
    /\ WrittenSeplen(acat[1]) = 2
    /\ acat[1].msgstr[1] = <<"a", "|", "~", NL, "|", "~", "~", "e", "0">>

\* ------------------------------------------------------------------------
\* The snapshot of an entry without separator length.

\* C15 as stated: in the history of a record, newest first, the tracked
\* field values of the snapshot of an entry with separator length 0 are
\* those of the snapshot of the entry before it in the history, the next
\* newer one, and the flags of the snapshot are the flags of the entry.
C15_CopiesNewer ==
    \A k \in 1..Len(acat) :
        \A h \in {asc_collect_history_single(acat[k], ConfigUsers).history} :
            \A p \in 2..Len(h) :
                h[p].slen = 0 =>
                    /\ SnapTracked(h[p].msg) = SnapTracked(h[p - 1].msg)
                    /\ h[p].msg.fuzzy = h[p].fuzz
                    /\ h[p].msg.obsolete = h[p].obs

\* C15, amended: the tracked field values of the snapshot of an entry with
\* separator length 0 are those of the snapshot of the entry of the comment
\* line before its own, the entry written before it, and the fuzzy and
\* obsolete flags of the snapshot are the flags parsed for the entry's own
\* line.
C15_CopiesPrecedingLine ==
    \A k \in 1..Len(acat) :
        \A raw \in {asc_collect_entries(acat[k], ConfigUsers).history} :
        \A lines \in {asc_parse_ascriptions(acat[k], ConfigUsers).ascripts} :
            /\ Len(raw) = Len(lines)
            /\ \A i \in 1..Len(raw) :
                  raw[i].slen = 0 =>
                      /\ i > 1
                      /\ SnapTracked(raw[i].msg) = SnapTracked(raw[i - 1].msg)
                      /\ MsgKey(raw[i].msg) = MsgKey(acat[k])
                      /\ raw[i].msg.fuzzy = lines[i].fuzz
                      /\ raw[i].msg.obsolete = lines[i].obs

\* The fuzzy message written twice and then another: the entry of the
\* second write has no separator length, the values of the first and its
\* own flags, and comes after the entry of the third in the history.
C15_Witness ==
    /\ Len(log) = 3
    /\ log[1].msg = log[2].msg
    /\ log[1].msg.fuzzy
    /\ log[3].msg # log[1].msg
    /\ log[1].dt.t <= log[2].dt.t
    /\ log[2].dt.t <= log[3].dt.t
    /\ \E h \in {asc_collect_history_single(acat[1], ConfigUsers).history} :
          /\ Len(h) = 3
          /\ h[2].slen = 0
          /\ h[1].slen # 0
          /\ SnapTracked(h[2].msg) = SnapTracked(h[3].msg)
          /\ SnapTracked(h[2].msg) # SnapTracked(h[1].msg)
          /\ h[3].msg.fuzzy
          /\ ~h[2].msg.fuzzy

\* ------------------------------------------------------------------------
\* The entries taken from the record of a previous identity.

\* The first position of the walk's history whose entry is of another
\* record than the first entry, 0 when all entries are of one record.
PivotAt(h) ==
    LET other == {i \in 1..Len(h) : MsgKey(h[i].msg) # MsgKey(h[1].msg)}
    IN  IF other = {} THEN 0 ELSE CHOOSE i \in other : \A j \in other : i <= j

\* C16: Pivot bound. Every entry the walk took from the record of a
\* previous identity has a time stamp before that of the anchor, the
\* oldest entry collected before the pivot; none has the anchor's time
\* stamp.
C16_PivotStrictlyOlder ==
    (walk.pc # "idle" /\ walk.w.history # <<>>) =>
        \A h \in {walk.w.history} :
            \A j \in 1..Len(h) :
                (PivotAt(h) # 0 /\ j >= PivotAt(h))
                => Instant(h[j].date[1]) < Instant(h[PivotAt(h) - 1].date[1])

\* ------------------------------------------------------------------------
\* A review under several tags.

\* C17: A review ascribed under several tags adds one comment line per tag,
\* in the order of the tags; the lines after the first are the type and
\* tag, the user and the time stamp and nothing else, and only the first
\* has the trailing block, which it has whenever stored strings were
\* added to. When the message was ascribed before, the record is
\* reconstructed with one entry per tag, reviews by the user at the time
\* of the write with the tags in order, all with the same snapshot.
C17_ReviewTagsStep ==
    LET w == log'[Len(log')]
        idx0 == AcatIndex(acat, w.msg)
        idx == AcatIndex(acat', w.msg)
        n == IF idx0 = 0 THEN 0 ELSE Len(acat[idx0].auto_comment)
        lines == acat'[idx].auto_comment
        bare(j) == w.atype \o <<atag_sep>> \o w.atags[j] \o <<fld_sep, " ">>
                   \o w.user \o <<" ", "|", " ">> \o format_datetime(w.dt)
    IN  (Len(log') = Len(log) + 1 /\ ~w.raised /\ w.atype = ATYPE_REV
         /\ Len(w.atags) >= 2) =>
            /\ Len(lines) = n + Len(w.atags)
            /\ IsPrefix(bare(1), lines[n + 1])
            /\ Bars(lines[n + 1]) \in {1, 2}
            /\ \A j \in 2..Len(w.atags) : lines[n + j] = bare(j)
            /\ (\E f \in TrackedSet : idx0 = 0 \/ acat'[idx][f] # acat[idx0][f])
               => Bars(lines[n + 1]) = 2
            /\ \A before \in {IF idx0 = 0 THEN [raised |-> FALSE, history |-> <<>>]
                              ELSE asc_collect_entries(acat[idx0], ConfigUsers)} :
               \A after \in {asc_collect_entries(acat'[idx], ConfigUsers)} :
                  (~before.raised /\ before.history # <<>>) =>
                      /\ ~after.raised
                      /\ Len(after.history) = n + Len(w.atags)
                      /\ IsPrefix(before.history, after.history)
                      /\ \A j \in 1..Len(w.atags) :
                            /\ after.history[n + j].type = ATYPE_REV
                            /\ after.history[n + j].tag = w.atags[j]
                            /\ after.history[n + j].user = Some(w.user)
                            /\ after.history[n + j].date = Some(w.dt)
                            /\ after.history[n + j].msg = after.history[n + 1].msg
                            /\ j > 1 => after.history[n + j].slen = 0

C17_ReviewTags == [][C17_ReviewTagsStep]_vars

\* A message written and then reviewed under two tags as another message:
\* the first line of the review has the block, the second has not.
C17_Witness ==
    /\ Len(log) = 2
    /\ log[1].atype = ATYPE_MOD
    /\ log[2].atype = ATYPE_REV
    /\ log[1].msg # log[2].msg
    /\ log[2].msg.fuzzy
    /\ ~log[2].raised
    /\ Len(acat[1].auto_comment) = 3
    /\ Bars(acat[1].auto_comment[2]) = 2
    /\ Bars(acat[1].auto_comment[3]) = 1
    /\ \E h \in {asc_collect_entries(acat[1], ConfigUsers).history} :
          /\ Len(h) = 3
          /\ h[2].msg = h[3].msg
          /\ h[2].msg # h[1].msg
          /\ h[2].slen > 0

\* ------------------------------------------------------------------------
\* Reduction of a collected history: clean merges, filter, diffs.

\* merge_modified(msg1, msg2): whether msg2 may be considered derived from
\* msg1 by merging. (The plural branches index msgstr[0] of a message that
\* carries a translation.)
merge_modified(msg1, msg2) ==
    LET fields_current == <<"msgctxt", "msgid", "msgid_plural">>
        same_originals ==
            IF msg1.fuzzy = msg2.fuzzy
            THEN \A k \in 1..3 :
                     LET field == IF msg1.fuzzy THEN fields_previous[k]
                                  ELSE fields_current[k]
                     IN  msg1[field] = msg2[field]
            ELSE \A k \in 1..3 :
                     LET field1 == IF msg1.fuzzy THEN fields_previous[k]
                                   ELSE fields_current[k]
                         field2 == IF msg1.fuzzy THEN fields_current[k]
                                   ELSE fields_previous[k]
                     IN  msg1[field1] = msg2[field2]
        same_translation ==
            IF (msg1.msgid_plural = None) = (msg2.msgid_plural = None)
            THEN msg1.msgstr = msg2.msgstr
            ELSE IF ~msg1.fuzzy /\ ~msg2.fuzzy THEN FALSE
            ELSE IF msg1.msgid_plural # None
                 THEN msg1.msgstr[1] = msg2.msgstr[1]
                 ELSE \A k \in 1..Len(msg2.msgstr) : msg2.msgstr[k] = msg1.msgstr[1]
    IN  /\ msg1.manual_comment = msg2.manual_comment
        /\ same_originals
        /\ same_translation

\* The entries of history at the positions in kept, in their order
\* (history_r.append(a) in a scan of the list).
history_r(history, kept) ==
    LET RECURSIVE from(_)
        from(i) == IF i > Len(history) THEN <<>>
                   ELSE IF i \in kept THEN <<history[i]>> \o from(i + 1)
                   ELSE from(i + 1)
    IN  from(1)

asc_collect_history_nomrg_transitions(history) ==
    history_r(history,
              {i \in 1..Len(history) :
                  i < Len(history) =>
                      \/ history[i].user # Some(UFUZZ)
                      \/ ~merge_modified(history[i + 1].msg, history[i].msg)})

\* "Eliminate clean merges from history": an entry by the merge pseudo-user
\* goes when merge_modified holds from the next older snapshot to its own,
\* and the oldest entry goes when it is by the merge pseudo-user.
asc_collect_history_nomrg(history) ==
    history_r(history,
              {i \in 1..Len(history) :
                  IF i < Len(history)
                  THEN \/ history[i].user # Some(UFUZZ)
                       \/ ~merge_modified(history[i + 1].msg, history[i].msg)
                  ELSE history[i].user # Some(UFUZZ)})

\* A history filter (options.hfilter, a composition of text hooks): the one
\* of the model removes the accelerator marker "&" from a text.
hfilter_composition(text) == SelectSeq(text, LAMBDA c : c # "&")

\* Message.inv, the extraction-invariant composition of a message: all of
\* it but the comments and references the extraction from sources writes.
inv(msg) == [msg EXCEPT !.auto_comment = <<>>]

asc_collect_history_hfilter_reviewbreaks(history) ==
    LET flt(msg) == [msg EXCEPT !.msgstr = [k \in 1..Len(msg.msgstr) |-> hfilter_composition(msg.msgstr[k])]]
        RECURSIVE scan(_, _)
        scan(i, a_prevmod) ==
            IF i < 1 THEN {}
            ELSE IF \/ history[i].type # ATYPE_MOD
                    \/ a_prevmod = None
                    \/ inv(flt(history[i].msg)) # inv(a_prevmod[1])
                 THEN {i} \cup scan(i - 1,
                                    IF history[i].type = ATYPE_MOD
                                    THEN Some(flt(history[i].msg)) ELSE None)
                 ELSE scan(i - 1, a_prevmod)
    IN  history_r(history, scan(Len(history), None))

\* "Eliminate contiguous chain of modifications equal under the filter,
\* except for the earliest in the chain": the scan runs from the oldest entry
\* to the newest and a_prevmod is the filtered snapshot of the last
\* modification kept; the filter is hfilter_composition.
asc_collect_history_hfilter(history) ==
    LET flt(msg) == [msg EXCEPT !.msgstr = [k \in 1..Len(msg.msgstr) |-> hfilter_composition(msg.msgstr[k])]]
        RECURSIVE scan(_, _)
        scan(i, a_prevmod) ==
            IF i < 1 THEN {}
            ELSE IF \/ history[i].type # ATYPE_MOD
                    \/ a_prevmod = None
                    \/ inv(flt(history[i].msg)) # inv(a_prevmod[1])
                 THEN {i} \cup scan(i - 1,
                                    IF history[i].type = ATYPE_MOD
                                    THEN Some(flt(history[i].msg)) ELSE a_prevmod)
                 ELSE scan(i - 1, a_prevmod)
    IN  history_r(history, scan(Len(history), None))

\* msg_ediff(msg1, msg2, emsg=msg2, addrem=addrem) of pology.misc.diff, on
\* the translation: each text of msg2 is reduced to the segments of its
\* difference from the text of msg1 at the same place (no text when msg1
\* has none there) that addrem selects, the difference being what lies
\* between the longest common prefix and the longest common suffix.
msg_ediff(msg1, msg2, addrem) ==
    LET segments(old, new) ==
            LET lim == IF Len(old) < Len(new) THEN Len(old) ELSE Len(new)
                p == CHOOSE n \in 0..lim :
                        /\ SubSeq(old, 1, n) = SubSeq(new, 1, n)
                        /\ \A k \in (n + 1)..lim : SubSeq(old, 1, k) # SubSeq(new, 1, k)
                s == CHOOSE n \in 0..(lim - p) :
                        /\ SubSeq(old, Len(old) - n + 1, Len(old))
                               = SubSeq(new, Len(new) - n + 1, Len(new))
                        /\ \A k \in (n + 1)..(lim - p) :
                               SubSeq(old, Len(old) - k + 1, Len(old))
                                   # SubSeq(new, Len(new) - k + 1, Len(new))
            IN  [a |-> SubSeq(new, p + 1, Len(new) - s),
                 r |-> SubSeq(old, p + 1, Len(old) - s),
                 e |-> SubSeq(new, 1, p) \o SubSeq(new, Len(new) - s + 1, Len(new))]
        reduced(old, new) == segments(old, new)[addrem[1]]
    IN  [msg2 EXCEPT !.msgstr =
            [k \in 1..Len(msg2.msgstr) |->
                reduced(IF k <= Len(msg1.msgstr) THEN msg1.msgstr[k] ELSE <<>>,
                        msg2.msgstr[k])]]

asc_collect_history_addrem_keepnewest(history, addrem) ==
    [i \in 1..Len(history) |->
        LET older == {j \in (i + 1)..Len(history) : history[j].type = ATYPE_MOD}
            reduced(j) == [history[i] EXCEPT !.msg = msg_ediff(history[j].msg, history[i].msg, addrem)]
        IN  IF i > 1 /\ history[i].type = ATYPE_MOD /\ older # {}
            THEN reduced(CHOOSE j \in older : \A j2 \in older : j <= j2)
            ELSE history[i]]

\* "Reduce history to particular segments of diffs between modifications":
\* in the scan from the newest entry, the snapshot of the modification seen
\* last (a_nextmod) is replaced by its difference from the snapshot of the
\* modification reached, which is itself replaced only at the next one.
asc_collect_history_addrem(history, addrem) ==
    [i \in 1..Len(history) |->
        LET older == {j \in (i + 1)..Len(history) : history[j].type = ATYPE_MOD}
            reduced(j) == [history[i] EXCEPT !.msg = msg_ediff(history[j].msg, history[i].msg, addrem)]
        IN  IF history[i].type = ATYPE_MOD /\ older # {}
            THEN reduced(CHOOSE j \in older : \A j2 \in older : j <= j2)
            ELSE history[i]]

\* The parts of asc_collect_history(msg, acat, config, nomrg, hfilter,
\* shallow, addrem) after the position markers, on the result c of the
\* parts before them, with the history after each part; hfilter is whether
\* the filter is given and addrem is "" for None.
asc_collect_history_reduced(c, nomrg, hfilter, addrem) ==
    LET reduced(h1, h2, h3) ==
            [raised |-> c.raised, marked |-> c.history, merged |-> h1,
             filtered |-> h2, history |-> h3]
        filtered(h1, h2) ==
            reduced(h1, h2,
                    IF addrem # <<>> THEN asc_collect_history_addrem(h2, addrem) ELSE h2)
        merged(h1) ==
            filtered(h1,
                     IF hfilter THEN asc_collect_history_hfilter(h1)
                     ELSE h1)
    IN  merged(IF nomrg THEN asc_collect_history_nomrg(c.history) ELSE c.history)

\* The live messages of SpecHist, of one identity: a translation, the same
\* translation with the accelerator marker, and the fuzzy message a merge
\* makes of the first when the original text changes.
HistMsgs ==
    { LiveMsg(<<"k">>, None, << <<"a">> >>, None, <<>>, FALSE, FALSE),
      LiveMsg(<<"k">>, None, << <<"a", "&">> >>, None, <<>>, FALSE, FALSE),
      LiveMsg(<<"k">>, None, << <<"a">> >>, Some(<<"k">>), <<>>, TRUE, FALSE) }

MaxHistWrites == 2

\* One call of ascribe_msg_any in a run of the script that starts one tick
\* after the run before, up to the last time of the model.
AscribeTick(msgs, kinds, users, maxw) ==
    /\ Len(log) < maxw
    /\ walk = Idle
    /\ \E m \in msgs, k \in kinds, u \in users :
          LET written(dt, r) ==
                  /\ acat' = r.acat
                  /\ log' = Append(log, [msg |-> m, atype |-> k.atype,
                                         atags |-> k.atags, user |-> u,
                                         dt |-> dt, raised |-> r.raised])
              at(dt) == written(dt, ascribe_msg_any(m, acat, k.atype, k.atags,
                                                    u, ConfigUsers, dt))
          IN  at([t |-> IF Len(log) < MaxTime THEN Len(log) ELSE MaxTime,
                  utcoff |-> 0])
    /\ UNCHANGED <<walk, parsed, sel>>

\* One call of asc_collect_history for a live message, with a choice of
\* the options of the command line.
Collect(msgs) ==
    /\ walk = Idle
    /\ \E m \in msgs :
          LET collected(nomrg, hfilter, addrem, r) ==
                  walk' = [pc |-> "collected", msg |-> m, nomrg |-> nomrg,
                           hfilter |-> hfilter, addrem |-> addrem,
                           raised |-> r.raised, marked |-> r.marked,
                           merged |-> r.merged, filtered |-> r.filtered,
                           history |-> r.history]
              marked(c) ==
                  \E nomrg \in BOOLEAN, hfilter \in BOOLEAN,
                     addrem \in {<<>>, <<"a">>, <<"r">>, <<"e">>} :
                      collected(nomrg, hfilter, addrem,
                                asc_collect_history_reduced(c, nomrg, hfilter, addrem))
          IN  marked(asc_collect_history(m, acat, ConfigUsers, FALSE))
    /\ UNCHANGED <<acat, log, parsed, sel>>

NextHist ==
    \/ AscribeTick(HistMsgs, {KindMod}, {<<"alice">>, UFUZZ}, MaxHistWrites)
    \/ AscribeTick(HistMsgs, {KindRev}, {<<"alice">>}, MaxHistWrites)
    \/ Collect(HistMsgs)

SpecHist == InitWriter /\ [][NextHist]_vars

\* ------------------------------------------------------------------------
\* C18: elimination of clean merges.

\* The positions of the marked history whose entry the part left in h.
KeptPos(h) == {h[j].pos : j \in 1..Len(h)}

\* The entries of h are entries of the history before, in its order.
OrderKept(before, h) ==
    /\ \A j \in 1..Len(h) : h[j].pos \in 1..Len(before) /\ h[j] = before[h[j].pos]
    /\ \A j \in 1..(Len(h) - 1) : h[j].pos < h[j + 1].pos

EqualUnderFilter(msg1, msg2) ==
    LET flt(msg) == [msg EXCEPT !.msgstr = [k \in 1..Len(msg.msgstr) |->
                                               hfilter_composition(msg.msgstr[k])]]
    IN  inv(flt(msg1)) = inv(flt(msg2))

\* The places of the modifications older than the entry at place i of h.
OlderMods(h, i) == {j \in (i + 1)..Len(h) : h[j].type = ATYPE_MOD}

\* C19 as stated: with a filter, a modification is removed exactly when
\* the entry just older than it is a modification equal to it under the
\* filter, so that a review between two equal modifications keeps both;
\* reviews are never removed.
C19_ReviewEndsRun ==
    (walk.pc = "collected" /\ walk.hfilter /\ ~walk.raised) =>
        /\ OrderKept(walk.marked, walk.filtered)
        /\ \A i \in 1..Len(walk.merged) :
               walk.merged[i].pos \notin KeptPos(walk.filtered) <=>
                   /\ walk.merged[i].type = ATYPE_MOD
                   /\ i < Len(walk.merged)
                   /\ walk.merged[i + 1].type = ATYPE_MOD
                   /\ EqualUnderFilter(walk.merged[i].msg, walk.merged[i + 1].msg)

\* C19, amended: with a filter, a modification is removed exactly when it
\* is equal under the filter to the nearest older modification, whether
\* or not reviews lie between the two, so that each run of such
\* modifications is collapsed to its earliest entry; reviews are never
\* removed and the kept entries keep their order.
C19_ReviewInsideRun ==
    (walk.pc = "collected" /\ walk.hfilter /\ ~walk.raised) =>
        /\ OrderKept(walk.marked, walk.filtered)
        /\ \A i \in 1..Len(walk.merged) :
               walk.merged[i].pos \notin KeptPos(walk.filtered) <=>
                   /\ walk.merged[i].type = ATYPE_MOD
                   /\ OlderMods(walk.merged, i) # {}
                   /\ \A j \in OlderMods(walk.merged, i) :
                          (\A j2 \in OlderMods(walk.merged, i) : j <= j2) =>
                              EqualUnderFilter(walk.merged[i].msg, walk.merged[j].msg)

\* A modification removed as equal under the filter, but not equal, to an
\* older modification from which a review separates it.
C19_Witness ==
    /\ walk.pc = "collected" /\ walk.hfilter /\ ~walk.raised
    /\ \E i \in 1..Len(walk.merged) :
           /\ walk.merged[i].type = ATYPE_MOD
           /\ walk.merged[i].pos \notin KeptPos(walk.filtered)
           /\ i < Len(walk.merged)
           /\ walk.merged[i + 1].type = ATYPE_REV
           /\ \E j \in OlderMods(walk.merged, i) :
                  /\ walk.merged[j].msg.msgstr # walk.merged[i].msg.msgstr
                  /\ walk.merged[j].pos \in KeptPos(walk.filtered)

\* ------------------------------------------------------------------------
\* C20: reduction of the snapshots to segments of differences.

\* The entry at place i of the reduced history is the entry before the
\* reduction with its snapshot reduced to the segments of the difference
\* from the nearest older modification.
ReducedAt(before, h, i, addrem) ==
    \A j \in OlderMods(before, i) :
        (\A j2 \in OlderMods(before, i) : j <= j2) =>
            h[i] = [before[i] EXCEPT !.msg = msg_ediff(before[j].msg, before[i].msg, addrem)]

\* C20 as stated: with addrem, the reviews and the newest entry of the
\* history are as before the reduction, and every other modification that
\* has an older one is reduced to its difference from the nearest older
\* modification.
C20_NewestUntouched ==
    (walk.pc = "collected" /\ walk.addrem # <<>> /\ ~walk.raised) =>
        /\ Len(walk.history) = Len(walk.filtered)
        /\ \A i \in 1..Len(walk.filtered) :
               IF i = 1 \/ walk.filtered[i].type # ATYPE_MOD
               THEN walk.history[i] = walk.filtered[i]
               ELSE ReducedAt(walk.filtered, walk.history, i, walk.addrem)

\* C20, amended: with addrem, every modification that has an older
\* modification in the history, the newest entry included, is reduced to
\* its difference from the nearest older modification; the reviews and the
\* oldest modification are as before the reduction.
C20_OldestUntouched ==
    (walk.pc = "collected" /\ walk.addrem # <<>> /\ ~walk.raised) =>
        /\ Len(walk.history) = Len(walk.filtered)
        /\ \A i \in 1..Len(walk.filtered) :
               IF walk.filtered[i].type # ATYPE_MOD \/ OlderMods(walk.filtered, i) = {}
               THEN walk.history[i] = walk.filtered[i]
               ELSE ReducedAt(walk.filtered, walk.history, i, walk.addrem)

\* A history of a modification, a review of it and a newer modification at
\* its head, whose snapshot the reduction to added segments changed.
C20_Witness ==
    /\ walk.pc = "collected" /\ walk.addrem = <<"a">> /\ ~walk.raised
    /\ Len(walk.history) >= 3
    /\ walk.history[1].type = ATYPE_MOD
    /\ walk.history[1].msg # walk.filtered[1].msg
    /\ walk.history[2].type = ATYPE_REV
    /\ walk.history[Len(walk.history)].type = ATYPE_MOD
    /\ walk.history[Len(walk.history)].msg.msgstr # << <<>> >>

\* ------------------------------------------------------------------------
\* C22: time stamps with an offset from UTC.

MaxStamps == 2

\* Offsets from UTC of the zones the script runs in, in minutes
\* (_TZInfo: hours and minutes of the local zone).
Offsets == {-90, -30, 0, 30, 90}

\* A time stamp is written by format_datetime for the start of a run in
\* some zone and read back by parse_datetime.
StampRun ==
    /\ Len(log) < MaxStamps
    /\ \E t \in Times, off \in Offsets :
          LET read(dt, text) ==
                  log' = Append(log, [dt |-> dt, text |-> text,
                                      back |-> parse_datetime(text)])
              written(dt) == read(dt, format_datetime(dt))
          IN  written([t |-> t, utcoff |-> off])
    /\ UNCHANGED <<acat, walk, parsed, sel>>

SpecStamp == InitWriter /\ [][StampRun]_vars

\* C22: a time stamp written by format_datetime is read by parse_datetime
\* as the same instant with the same offset, sign times (HH hours + MM
\* minutes), and two time stamps read back are ordered as the instants
\* written.
C22_OffsetRoundTrip ==
    /\ \A i \in 1..Len(log) :
           /\ log[i].back # None
           /\ log[i].back[1].utcoff = log[i].dt.utcoff
           /\ Instant(log[i].back[1]) = Instant(log[i].dt)
    /\ \A i, j \in 1..Len(log) :
           (log[i].back # None /\ log[j].back # None) =>
               (Instant(log[i].back[1]) < Instant(log[j].back[1])
                    <=> Instant(log[i].dt) < Instant(log[j].dt))

\* ------------------------------------------------------------------------
\* Ascription of a whole catalog: ascribe_modified_cat, ascribe_reviewed_cat.
\* A live catalog is a list of entries [msg, flag] with distinct keys: the
\* message and its flags other than fuzzy.

\* has_tracked_parts(msg)
has_tracked_parts(msg) ==
    \E k \in 1..Len(nonid_fields_tracked) :
        LET part == nonid_fields_tracked[k]
        IN  IF part \notin multiple_fields THEN msg[part] # None
            ELSE IF part = "msgstr"
                 THEN \E i \in 1..Len(msg.msgstr) : msg.msgstr[i] # <<>>
                 ELSE msg[part] # <<>>

clear_review_msg_nosynonyms(e) ==
    LET diffflags == {"ediff", "ediff-total", "ediff-ignored"}
        revdflags == {"reviewed"}
        urevdflags == {"unreviewed", "unrevd", "unrev", "urevd", "urev", "nrevd", "nrev"}
        achncmnt == <<"~", "a", "s", "c", "t", "o", ":">>
    IN  [msg |-> [e.msg EXCEPT !.auto_comment =
                     SelectSeq(@, LAMBDA c : ~IsPrefix(achncmnt, Strip(c)))],
         flag |-> e.flag \ (diffflags \cup revdflags \cup urevdflags),
         commented |-> \E i \in 1..Len(e.msg.auto_comment) :
                          IsPrefix(achncmnt, Strip(e.msg.auto_comment[i])),
         diffed |-> e.flag \cap diffflags # {},
         revd |-> e.flag \cap revdflags # {},
         unrevd |-> e.flag \cap urevdflags # {}]

\* clear_review_msg(msg, keepflags=False) on a catalog entry: the entry
\* without review flags and review comments, and what was found. (The
\* live messages of the model embed no difference, so msg_ediff_to_new
\* has no text to restore.)
clear_review_msg(e) ==
    LET diffflags == {"ediff", "ediff-total", "ediff-ignored"}
        revdflags == {"reviewed", "revd", "rev"}
        urevdflags == {"unreviewed", "unrevd", "unrev", "urevd", "urev", "nrevd", "nrev"}
        achncmnt == <<"~", "a", "s", "c", "t", "o", ":">>
    IN  [msg |-> [e.msg EXCEPT !.auto_comment =
                     SelectSeq(@, LAMBDA c : ~IsPrefix(achncmnt, Strip(c)))],
         flag |-> e.flag \ (diffflags \cup revdflags \cup urevdflags),
         commented |-> \E i \in 1..Len(e.msg.auto_comment) :
                          IsPrefix(achncmnt, Strip(e.msg.auto_comment[i])),
         diffed |-> e.flag \cap diffflags # {},
         revd |-> e.flag \cap revdflags # {},
         unrevd |-> e.flag \cap urevdflags # {}]

RECURSIVE ascribe_msg_each(_, _, _, _, _, _, _)
\* "for msg in toasc_msgs: ascribe_msg_mod(msg, acat, user, config)" and
\* "for msg in revd_msgs: ascribe_msg_rev(msg, acat, options.tag, user,
\* config)": the shadow catalog after the loop; when a call raises the
\* script ends before the catalog is written.
ascribe_msg_each(msgs, acat_, atype, atags, user, users, dt) ==
    LET rest(r) ==
            IF r.raised THEN r
            ELSE ascribe_msg_each(Tail(msgs), r.acat, atype, atags, user, users, dt)
    IN  IF msgs = <<>> THEN [raised |-> FALSE, acat |-> acat_]
        ELSE rest(ascribe_msg_any(Head(msgs), acat_, atype, atags, user, users, dt))

ascribe_modified_cat_unmarked(cat, acat_, user, users, dt) ==
    LET written(r) == IF r.raised THEN [raised |-> TRUE, acat |-> acat_] ELSE r
        unascribed(h, msg) ==
            [raised |-> h.raised,
             toasc |-> ~h.raised /\ h.history[1].user = None /\ has_tracked_parts(msg),
             msg |-> msg]
        vanished(col, gone) ==
            [raised |-> gone /\ (col.raised \/ col.history = <<>>),
             toasc |-> gone /\ ~col.raised /\ col.history # <<>>,
             msg |-> IF gone /\ ~col.raised /\ col.history # <<>>
                     THEN col.history[1].msg
                     ELSE NewMessage]
        scanned(es) ==
            IF \E i \in 1..Len(es) : es[i].raised
            THEN [raised |-> TRUE, acat |-> acat_]
            ELSE written(ascribe_msg_each(
                             history_r([i \in 1..Len(es) |-> es[i].msg],
                                       {i \in 1..Len(es) : es[i].toasc}),
                             acat_, ATYPE_MOD, <<>>, user, users, dt))
    IN  scanned([i \in 1..Len(cat) |->
                    unascribed(asc_collect_history(cat[i].msg, acat_, users, TRUE),
                               cat[i].msg)]
                \o [k \in 1..Len(acat_) |->
                       vanished(IF \/ acat_[k].obsolete
                                   \/ \E i \in 1..Len(cat) :
                                          MsgKey(cat[i].msg) = MsgKey(acat_[k])
                                THEN [raised |-> FALSE, history |-> <<>>]
                                ELSE asc_collect_history_single(acat_[k], users),
                                /\ ~acat_[k].obsolete
                                /\ \A i \in 1..Len(cat) :
                                       MsgKey(cat[i].msg) # MsgKey(acat_[k]))])

\* ascribe_modified_cat(options, config, user, catpath, acatpath): the
\* unascribed live messages with tracked parts, then the newest snapshot,
\* made obsolete, of every record that is not obsolete and has no live
\* counterpart, are ascribed as modified.
ascribe_modified_cat(cat, acat_, user, users, dt) ==
    LET written(r) == IF r.raised THEN [raised |-> TRUE, acat |-> acat_] ELSE r
        unascribed(h, msg) ==
            [raised |-> h.raised,
             toasc |-> ~h.raised /\ h.history[1].user = None /\ has_tracked_parts(msg),
             msg |-> msg]
        vanished(col, gone) ==
            [raised |-> gone /\ (col.raised \/ col.history = <<>>),
             toasc |-> gone /\ ~col.raised /\ col.history # <<>>,
             msg |-> IF gone /\ ~col.raised /\ col.history # <<>>
                     THEN [col.history[1].msg EXCEPT !.obsolete = TRUE]
                     ELSE NewMessage]
        scanned(es) ==
            IF \E i \in 1..Len(es) : es[i].raised
            THEN [raised |-> TRUE, acat |-> acat_]
            ELSE written(ascribe_msg_each(
                             history_r([i \in 1..Len(es) |-> es[i].msg],
                                       {i \in 1..Len(es) : es[i].toasc}),
                             acat_, ATYPE_MOD, <<>>, user, users, dt))
    IN  scanned([i \in 1..Len(cat) |->
                    unascribed(asc_collect_history(cat[i].msg, acat_, users, TRUE),
                               cat[i].msg)]
                \o [k \in 1..Len(acat_) |->
                       vanished(IF \/ acat_[k].obsolete
                                   \/ \E i \in 1..Len(cat) :
                                          MsgKey(cat[i].msg) = MsgKey(acat_[k])
                                THEN [raised |-> FALSE, history |-> <<>>]
                                ELSE asc_collect_history_single(acat_[k], users),
                                /\ ~acat_[k].obsolete
                                /\ \A i \in 1..Len(cat) :
                                       MsgKey(cat[i].msg) # MsgKey(acat_[k]))])

ascribe_reviewed_cat_unchecked(cat, acat_, tag, user, users, selected, hfilter, addrem, dt) ==
    LET entry(c, h) ==
            [msg |-> c.msg, unrevd |-> c.unrevd, raised |-> ~c.unrevd /\ h.raised,
             user |-> IF c.unrevd \/ h.raised THEN None ELSE h.history[1].user]
        cleared(c) ==
            entry(c, IF c.unrevd THEN [raised |-> FALSE]
                     ELSE asc_collect_history_reduced(
                              asc_collect_history(c.msg, acat_, users, FALSE),
                              FALSE, hfilter, addrem))
        passes(e) ==
            /\ ~e.unrevd
            /\ ~(e.user = None /\ ~has_tracked_parts(e.msg))
            /\ MsgKey(e.msg) \in selected
        written(non_mod_asc, r) ==
            [raised |-> r.raised, acat |-> IF r.raised THEN acat_ ELSE r.acat,
             non_mod_asc_msgs |-> non_mod_asc]
        scanned(es) ==
            IF \E i \in 1..Len(es) : es[i].raised
            THEN [raised |-> TRUE, acat |-> acat_, non_mod_asc_msgs |-> {}]
            ELSE written({},
                         ascribe_msg_each(
                             history_r([i \in 1..Len(es) |-> es[i].msg],
                                       {i \in 1..Len(es) : passes(es[i])}),
                             acat_, ATYPE_REV, [c \in 1..Len(tag) |-> <<tag[c]>>],
                             user, users, dt))
    IN  scanned([i \in 1..Len(cat) |-> cleared(clear_review_msg(cat[i]))])

\* ascribe_reviewed_cat(options, config, user, catpath, acatpath, stest):
\* review flags and comments are cleared from each message, and the
\* messages not flagged as unreviewed, not pristine, selected (stest: the
\* keys in selected) and with an ascribed head of the history, collected
\* with the filter and the reduction of the options, are ascribed as
\* reviewed; those with the unascribed head go into the warning. The tag
\* of the options, a string, is passed where ascribe_msg_any iterates over
\* a list, so that the loop "for atag in atags or ['']" takes its
\* characters one by one.
ascribe_reviewed_cat(cat, acat_, tag, user, users, selected, hfilter, addrem, dt) ==
    LET entry(c, h) ==
            [msg |-> c.msg, unrevd |-> c.unrevd, raised |-> ~c.unrevd /\ h.raised,
             user |-> IF c.unrevd \/ h.raised THEN None ELSE h.history[1].user]
        cleared(c) ==
            entry(c, IF c.unrevd THEN [raised |-> FALSE]
                     ELSE asc_collect_history_reduced(
                              asc_collect_history(c.msg, acat_, users, FALSE),
                              FALSE, hfilter, addrem))
        passes(e) ==
            /\ ~e.unrevd
            /\ ~(e.user = None /\ ~has_tracked_parts(e.msg))
            /\ MsgKey(e.msg) \in selected
        written(non_mod_asc, r) ==
            [raised |-> r.raised, acat |-> IF r.raised THEN acat_ ELSE r.acat,
             non_mod_asc_msgs |-> non_mod_asc]
        scanned(es) ==
            IF \E i \in 1..Len(es) : es[i].raised
            THEN [raised |-> TRUE, acat |-> acat_, non_mod_asc_msgs |-> {}]
            ELSE written({i \in 1..Len(es) : passes(es[i]) /\ es[i].user = None},
                         ascribe_msg_each(
                             history_r([i \in 1..Len(es) |-> es[i].msg],
                                       {i \in 1..Len(es) :
                                           passes(es[i]) /\ es[i].user # None}),
                             acat_, ATYPE_REV, [c \in 1..Len(tag) |-> <<tag[c]>>],
                             user, users, dt))
    IN  scanned([i \in 1..Len(cat) |-> cleared(clear_review_msg(cat[i]))])

\* The states of the live catalog between the runs of the script: two
\* identities, the first also with the accelerator marker in its
\* translation, the second also flagged by the reviewer.
Cats ==
    LET CatK == LiveMsg(<<"k">>, None, << <<"a">> >>, None, <<>>, FALSE, FALSE)
        CatKAccel == LiveMsg(<<"k">>, None, << <<"a", "&">> >>, None, <<>>, FALSE, FALSE)
        CatJ == LiveMsg(<<"j">>, None, << <<"b">> >>, None, <<>>, FALSE, FALSE)
    IN  { << [msg |-> CatK, flag |-> {}] >>,
          << [msg |-> CatK, flag |-> {}], [msg |-> CatJ, flag |-> {}] >>,
          << [msg |-> CatKAccel, flag |-> {}], [msg |-> CatJ, flag |-> {"unreviewed"}] >>,
          << [msg |-> CatJ, flag |-> {"reviewed"}] >> }

MaxCatRuns == 2

\* The start of the run after the runs in log (_dt_start).
DtStart ==
    [t |-> IF Len(log) < MaxTime THEN Len(log) ELSE MaxTime, utcoff |-> 0]

\* A run of the script in mode "modified" on one catalog.
ModifiedCat(users, maxruns) ==
    /\ Len(log) < maxruns
    /\ \E cat \in Cats, user \in users :
          LET run(r) ==
                  /\ acat' = r.acat
                  /\ log' = Append(log, [mode |-> "modified", cat |-> cat,
                                         tag |-> <<>>, selected |-> {},
                                         hfilter |-> FALSE, dt |-> DtStart,
                                         raised |-> r.raised,
                                         non_mod_asc_msgs |-> {}])
          IN  run(ascribe_modified_cat(cat, acat, user, ConfigUsers, DtStart))
    /\ UNCHANGED <<walk, parsed, sel>>

\* A run of the script in mode "reviewed" on one catalog, with a tag of the
\* configuration (config.review_tags: "" and "rv"), a selector and the
\* filter given or not.
ReviewedCat ==
    /\ Len(log) < MaxCatRuns
    /\ \E cat \in Cats, tag \in {<<>>, <<"r", "v">>}, hfilter \in BOOLEAN,
          selected \in {{<<None, Some(<<"k">>)>>},
                        {<<None, Some(<<"k">>)>>, <<None, Some(<<"j">>)>>}} :
          LET run(r) ==
                  /\ acat' = r.acat
                  /\ log' = Append(log, [mode |-> "reviewed", cat |-> cat,
                                         tag |-> tag, selected |-> selected,
                                         hfilter |-> hfilter, dt |-> DtStart,
                                         raised |-> r.raised,
                                         non_mod_asc_msgs |-> r.non_mod_asc_msgs])
          IN  run(ascribe_reviewed_cat(cat, acat, tag, <<"bob">>, ConfigUsers,
                                       selected, hfilter, <<>>, DtStart))
    /\ UNCHANGED <<walk, parsed, sel>>

SpecCat ==
    InitWriter /\ [][ModifiedCat({<<"alice">>}, MaxCatRuns) \/ ReviewedCat]_vars

\* ------------------------------------------------------------------------
\* C23: records without a live counterpart.

MaxObsRuns == 3

SpecObs == InitWriter /\ [][ModifiedCat({<<"alice">>, <<"bob">>}, MaxObsRuns)]_vars

\* The record at place k of the shadow catalog has no counterpart in cat.
Vanished(cat, k) == \A i \in 1..Len(cat) : MsgKey(cat[i].msg) # MsgKey(acat[k])

\* C23: a run in mode "modified" deletes no record; a record that is not
\* obsolete and has no live counterpart gets one more ascription line, a
\* modification marked obsolete, and becomes obsolete; and a run on the
\* catalog of the run before changes no record.
C23_ObsoleteStep ==
    LET w == log'[Len(log')]
    IN  (Len(log') = Len(log) + 1 /\ w.mode = "modified" /\ ~w.raised) =>
            /\ Len(acat') >= Len(acat)
            /\ \A k \in 1..Len(acat) : MsgKey(acat'[k]) = MsgKey(acat[k])
            /\ \A k \in 1..Len(acat) :
                   (Vanished(w.cat, k) /\ ~acat[k].obsolete) =>
                       /\ acat'[k].obsolete
                       /\ Len(acat'[k].auto_comment) = Len(acat[k].auto_comment) + 1
                       /\ \A after \in {asc_collect_entries(acat'[k], ConfigUsers)} :
                              /\ ~after.raised
                              /\ Len(after.history) = Len(acat'[k].auto_comment)
                              /\ after.history[Len(after.history)].type = ATYPE_MOD
                              /\ after.history[Len(after.history)].obs
                              /\ after.history[Len(after.history)].msg.obsolete
            /\ \A k \in 1..Len(acat) :
                   (Vanished(w.cat, k) /\ acat[k].obsolete) => acat'[k] = acat[k]
            /\ (log # <<>> /\ log[Len(log)].cat = w.cat /\ ~log[Len(log)].raised)
                   => acat' = acat

HeadUnascribed(msg, hfilter) ==
    \A c \in {asc_collect_history_reduced(
                  asc_collect_history(msg, acat, ConfigUsers, FALSE),
                  FALSE, hfilter, <<>>)} :
        ~c.raised /\ c.history[1].user = None

\* The record of msg has the same ascription lines after the step.
SameLines(msg) ==
    IF AcatIndex(acat, msg) = 0 THEN AcatIndex(acat', msg) = 0
    ELSE acat'[AcatIndex(acat, msg)] = acat[AcatIndex(acat, msg)]

\* The record of msg has more lines after the step, new ones all reviews.
ReviewLinesAdded(msg) ==
    /\ AcatIndex(acat, msg) # 0
    /\ \A old \in {acat[AcatIndex(acat, msg)].auto_comment} :
       \A new \in {acat'[AcatIndex(acat, msg)].auto_comment} :
           /\ Len(new) > Len(old)
           /\ IsPrefix(old, new)
           /\ \A j \in (Len(old) + 1)..Len(new) : IsPrefix(ATYPE_REV, new[j])

\* A run in mode "reviewed": the selected messages with tracked parts, not
\* flagged as unreviewed, either have the unascribed head, are in the
\* warning and keep their record as it is, or get review lines; all other
\* messages keep their record. filtered is whether the head is that of the
\* history collected with the filter of the run.
ReviewedRun(filtered) ==
    LET w == log'[Len(log')]
    IN  (Len(log') = Len(log) + 1 /\ w.mode = "reviewed" /\ ~w.raised) =>
            \A i \in 1..Len(w.cat) :
                LET msg == w.cat[i].msg
                    considered == /\ ~clear_review_msg(w.cat[i]).unrevd
                                  /\ MsgKey(msg) \in w.selected
                                  /\ has_tracked_parts(msg)
                IN  IF HeadUnascribed(msg, filtered /\ w.hfilter)
                    THEN /\ SameLines(msg)
                         /\ considered <=> i \in w.non_mod_asc_msgs
                    ELSE /\ i \notin w.non_mod_asc_msgs
                         /\ IF considered THEN ReviewLinesAdded(msg) ELSE SameLines(msg)

\* C21 as stated: no review line for a message whose history has the
\* unascribed entry at its head; the others selected get theirs.
C21_UnascribedExcluded == [][ReviewedRun(FALSE)]_vars

\* C21, amended: no review line for a message whose history, collected
\* with the filter of the run when one is given, has the unascribed entry
\* at its head; such messages go into the warning and the others selected
\* get their review lines.
C21_UnascribedUnderFilterExcluded == [][ReviewedRun(TRUE)]_vars

\* A run that reviewed one message and left another, not ascribed as
\* modified, to the warning.
C21_Witness ==
    /\ Len(log) = 2
    /\ log[1].mode = "modified" /\ log[2].mode = "reviewed"
    /\ ~log[2].raised
    /\ Len(log[2].cat) = 2
    /\ log[2].non_mod_asc_msgs = {2}
    /\ Len(acat) = 1
    /\ Len(acat[1].auto_comment) = 2
    /\ IsPrefix(ATYPE_REV, acat[1].auto_comment[2])

\* ------------------------------------------------------------------------
\* C30: the tag of a review.

\* C30: in a run in mode "reviewed" with a tag of the configuration that
\* is not empty, the record of each message reviewed gets exactly one new
\* line, a review, and the tag read back from it is the tag of the run.
C30_TagStep ==
    LET w == log'[Len(log')]
    IN  (Len(log') = Len(log) + 1 /\ w.mode = "reviewed" /\ ~w.raised
         /\ w.tag # <<>>) =>
            \A i \in 1..Len(w.cat) :
                ~SameLines(w.cat[i].msg) =>
                    \A k \in {AcatIndex(acat, w.cat[i].msg)} :
                    \A after \in {asc_collect_entries(acat'[k], ConfigUsers)} :
                        /\ Len(acat'[k].auto_comment) = Len(acat[k].auto_comment) + 1
                        /\ ~after.raised
                        /\ after.history # <<>>
                        /\ after.history[Len(after.history)].type = ATYPE_REV
                        /\ after.history[Len(after.history)].tag = w.tag

C30_TagRecorded == [][C30_TagStep]_vars

\* ------------------------------------------------------------------------
\* History selectors. A selector is called on a history, newest entry
\* first, and returns a 1-based index into it or 0.

\* parse_fixed_set(elstr, config, knownels, errfmt, cid), which parse_users
\* and parse_tags call with the users and the review tags of the
\* configuration: the set of elements, and whether error() was called for
\* an element that is not known. Names are single tokens of the text.
parse_fixed_set(elstr, knownels) ==
    LET listed(inverted, els) ==
            [error |-> \E el \in els : el \notin knownels,
             els |-> IF inverted THEN knownels \ els ELSE els]
        parts(inverted, ps) == listed(inverted, {ps[i] : i \in 1..Len(ps)})
        stripped(str) ==
            IF str # <<>> /\ str[1] = "~"
            THEN parts(TRUE, Split(Tail(str), ","))
            ELSE parts(FALSE, Split(str, ","))
    IN  IF elstr = <<>> THEN [error |-> FALSE, els |-> {}]
        ELSE stripped(SelectSeq(elstr, LAMBDA c : c # " "))

\* The least and the greatest index of a set of indices, 0 when empty.
FirstOf(S) == IF S = {} THEN 0 ELSE CHOOSE i \in S : \A j \in S : i <= j
LastOf(S) == IF S = {} THEN 0 ELSE CHOOSE i \in S : \A j \in S : i >= j

w_selector_modax_newest(amod, arev, musers, rmusers, atags, tronly, history) ==
    LET user_in(a, users) == a.user # None /\ a.user[1] \in users
        cancels(a) ==
            /\ \/ amod /\ a.type = ATYPE_MOD
               \/ arev /\ a.type = ATYPE_REV /\ a.tag \in atags
            /\ rmusers = {} \/ user_in(a, rmusers)
            /\ musers = {} \/ ~user_in(a, musers)
        admissible(a) ==
            /\ a.type = ATYPE_MOD
            /\ musers = {} \/ user_in(a, musers)
            /\ rmusers = {} \/ ~user_in(a, rmusers)
        candidate(i) ==
            /\ ~(/\ history[i].user = Some(UFUZZ)
                 /\ i < Len(history)
                 /\ merge_modified(history[i + 1].msg, history[i].msg))
            /\ ~(/\ tronly
                 /\ i < Len(history)
                 /\ history[i + 1].msg.msgstr = history[i].msg.msgstr)
        stop == FirstOf({i \in 1..Len(history) : cancels(history[i])})
        range == 1..(IF stop = 0 THEN Len(history) ELSE stop - 1)
    IN  IF history[1].user = None THEN 0
        ELSE FirstOf({i \in range : admissible(history[i]) /\ candidate(i)})

w_selector_modax_inclusive(amod, arev, musers, rmusers, atags, tronly, history) ==
    LET user_in(a, users) == a.user # None /\ a.user[1] \in users
        cancels(a) ==
            /\ \/ amod /\ a.type = ATYPE_MOD
               \/ arev /\ a.type = ATYPE_REV /\ a.tag \in atags
            /\ rmusers = {} \/ user_in(a, rmusers)
            /\ musers = {} \/ ~user_in(a, musers)
        admissible(a) ==
            /\ a.type = ATYPE_MOD
            /\ musers = {} \/ user_in(a, musers)
            /\ rmusers = {} \/ ~user_in(a, rmusers)
        candidate(i) ==
            /\ ~(/\ history[i].user = Some(UFUZZ)
                 /\ i < Len(history)
                 /\ merge_modified(history[i + 1].msg, history[i].msg))
            /\ ~(/\ tronly
                 /\ i < Len(history)
                 /\ history[i + 1].msg.msgstr = history[i].msg.msgstr)
        stop == FirstOf({i \in 1..Len(history) : cancels(history[i])})
        range == 1..(IF stop = 0 THEN Len(history) ELSE stop)
    IN  IF history[1].user = None THEN 0
        ELSE LastOf({i \in range : admissible(history[i]) /\ candidate(i)})

\* The selector w_selector_modax(cid, amod, arev, muser_spec, rmuser_spec,
\* atag_spec, tronly) makes, on the parsed sets: the scan from the newest
\* entry ends at the first entry that cancels further modifications, and
\* hi_sel is the last candidate passed before it.
w_selector_modax(amod, arev, musers, rmusers, atags, tronly, history) ==
    LET user_in(a, users) == a.user # None /\ a.user[1] \in users
        cancels(a) ==
            /\ \/ amod /\ a.type = ATYPE_MOD
               \/ arev /\ a.type = ATYPE_REV /\ a.tag \in atags
            /\ rmusers = {} \/ user_in(a, rmusers)
            /\ musers = {} \/ ~user_in(a, musers)
        admissible(a) ==
            /\ a.type = ATYPE_MOD
            /\ musers = {} \/ user_in(a, musers)
            /\ rmusers = {} \/ ~user_in(a, rmusers)
        candidate(i) ==
            /\ ~(/\ history[i].user = Some(UFUZZ)
                 /\ i < Len(history)
                 /\ merge_modified(history[i + 1].msg, history[i].msg))
            /\ ~(/\ tronly
                 /\ i < Len(history)
                 /\ history[i + 1].msg.msgstr = history[i].msg.msgstr)
        stop == FirstOf({i \in 1..Len(history) : cancels(history[i])})
        range == 1..(IF stop = 0 THEN Len(history) ELSE stop - 1)
    IN  IF history[1].user = None THEN 0
        ELSE LastOf({i \in range : admissible(history[i]) /\ candidate(i)})

\* The selector selector_revbm(ruser_spec, muser_spec, atag_spec) makes:
\* the scan ends at the first qualifying review, which is selected when a
\* qualifying modification was passed before it.
selector_revbm(rusers, musers, atags, history) ==
    LET user_in(a, users) == a.user # None /\ a.user[1] \in users
        modification(a) ==
            /\ a.type = ATYPE_MOD
            /\ musers = {} \/ user_in(a, musers)
            /\ rusers = {} \/ ~user_in(a, rusers)
        review(a) ==
            /\ a.type = ATYPE_REV /\ a.tag \in atags
            /\ rusers = {} \/ user_in(a, rusers)
            /\ musers = {} \/ ~user_in(a, musers)
        stop == FirstOf({i \in 1..Len(history) : review(history[i])})
    IN  IF history[1].user = None THEN 0
        ELSE IF stop # 0 /\ \E i \in 1..stop : modification(history[i])
             THEN stop ELSE 0

selector_history_headless(sname, args, history, config_users, review_tags) ==
    LET users(spec) == parse_fixed_set(spec, config_users)
        tags(spec) ==
            LET parsed_(r) == [error |-> r.error,
                               els |-> IF r.els = {} THEN {<<>>} ELSE r.els]
            IN  parsed_(parse_fixed_set(spec, review_tags))
        user_in(a, us) == a.user # None /\ a.user[1] \in us
        selector_asc(us) ==
            FirstOf({i \in 1..Len(history) : us = {} \/ user_in(history[i], us)})
        selector_mod(us) ==
            FirstOf({i \in 1..Len(history) :
                        /\ history[i].user # None
                        /\ history[i].type = ATYPE_MOD
                        /\ us = {} \/ user_in(history[i], us)})
        selector_rev(us, atags) ==
            FirstOf({i \in 1..Len(history) :
                        /\ history[i].type = ATYPE_REV
                        /\ history[i].tag \in atags
                        /\ us = {} \/ user_in(history[i], us)})
        selector_modafter(date, us) ==
            LastOf({i \in 1..Len(history) :
                       /\ history[i].type = ATYPE_MOD
                       /\ us = {} \/ user_in(history[i], us)
                       /\ history[i].date # None
                       /\ Instant(history[i].date[1]) >= Instant(date)})
        selector_hexpr(expr, us) ==
            FirstOf({i \in 1..Len(history) :
                        /\ us = {} \/ user_in(history[i], us)
                        /\ \E k \in 1..Len(history[i].msg.msgstr) :
                               Contains(history[i].msg.msgstr[k], expr)})
        result(error, res) ==
            [error |-> error,
             res |-> IF error \/ FALSE THEN 0 ELSE res]
        three(u1, u2, t) ==
            result(u1.error \/ u2.error \/ t.error,
                   IF sname = "revbm"
                   THEN selector_revbm(u1.els, u2.els, t.els, history)
                   ELSE w_selector_modax(sname \in {"modam", "modarm"},
                                         sname \in {"modar", "modarm", "tmodar"},
                                         u1.els, u2.els, t.els,
                                         sname = "tmodar", history))
        two(u, t) == result(u.error \/ t.error, selector_rev(u.els, t.els))
        one(u) ==
            result(u.error, IF sname = "asc" THEN selector_asc(u.els)
                            ELSE selector_mod(u.els))
        timed(date, u) ==
            result(date = None \/ u.error,
                   IF date = None THEN 0 ELSE selector_modafter(date[1], u.els))
        matched(expr, u) ==
            result(expr = <<>> \/ u.error, selector_hexpr(expr, u.els))
    IN  CASE sname \in {"asc", "mod"} -> one(users(args[1]))
          [] sname \in {"modar", "modarm", "tmodar", "revbm"} ->
                 three(users(args[1]), users(args[2]), tags(args[3]))
          [] sname = "modam" ->
                 three(users(args[1]), users(args[2]), tags(<<>>))
          [] sname = "rev" -> two(users(args[1]), tags(args[2]))
          [] sname = "modafter" ->
                 timed(IF args[1] = <<>> THEN None ELSE parse_datetime(args[1]),
                       users(args[2]))
          [] sname = "hexpr" -> matched(Strip(args[1]), users(args[2]))

\* The history selectors of xm_selector_factories made from the arguments
\* of a specification and called on a history: whether making the
\* selector or parsing its users and tags ended in error(), and the index
\* returned. Every selector returns 0 at once for a history with the
\* unascribed entry at its head. (hexpr: without addrem, and with the
\* matcher of build_msg_fmatcher taken as "the translation contains the
\* expression"; modam has no tag argument.)
selector_history(sname, args, history, config_users, review_tags) ==
    LET users(spec) == parse_fixed_set(spec, config_users)
        tags(spec) ==
            LET parsed_(r) == [error |-> r.error,
                               els |-> IF r.els = {} THEN {<<>>} ELSE r.els]
            IN  parsed_(parse_fixed_set(spec, review_tags))
        user_in(a, us) == a.user # None /\ a.user[1] \in us
        selector_asc(us) ==
            FirstOf({i \in 1..Len(history) : us = {} \/ user_in(history[i], us)})
        selector_mod(us) ==
            FirstOf({i \in 1..Len(history) :
                        /\ history[i].user # None
                        /\ history[i].type = ATYPE_MOD
                        /\ us = {} \/ user_in(history[i], us)})
        selector_rev(us, atags) ==
            FirstOf({i \in 1..Len(history) :
                        /\ history[i].type = ATYPE_REV
                        /\ history[i].tag \in atags
                        /\ us = {} \/ user_in(history[i], us)})
        selector_modafter(date, us) ==
            LastOf({i \in 1..Len(history) :
                       /\ history[i].type = ATYPE_MOD
                       /\ us = {} \/ user_in(history[i], us)
                       /\ history[i].date # None
                       /\ Instant(history[i].date[1]) >= Instant(date)})
        selector_hexpr(expr, us) ==
            FirstOf({i \in 1..Len(history) :
                        /\ us = {} \/ user_in(history[i], us)
                        /\ \E k \in 1..Len(history[i].msg.msgstr) :
                               Contains(history[i].msg.msgstr[k], expr)})
        result(error, res) ==
            [error |-> error,
             res |-> IF error \/ history[1].user = None THEN 0 ELSE res]
        three(u1, u2, t) ==
            result(u1.error \/ u2.error \/ t.error,
                   IF sname = "revbm"
                   THEN selector_revbm(u1.els, u2.els, t.els, history)
                   ELSE w_selector_modax(sname \in {"modam", "modarm"},
                                         sname \in {"modar", "modarm", "tmodar"},
                                         u1.els, u2.els, t.els,
                                         sname = "tmodar", history))
        two(u, t) == result(u.error \/ t.error, selector_rev(u.els, t.els))
        one(u) ==
            result(u.error, IF sname = "asc" THEN selector_asc(u.els)
                            ELSE selector_mod(u.els))
        timed(date, u) ==
            result(date = None \/ u.error,
                   IF date = None THEN 0 ELSE selector_modafter(date[1], u.els))
        matched(expr, u) ==
            result(expr = <<>> \/ u.error, selector_hexpr(expr, u.els))
    IN  CASE sname \in {"asc", "mod"} -> one(users(args[1]))
          [] sname \in {"modar", "modarm", "tmodar", "revbm"} ->
                 three(users(args[1]), users(args[2]), tags(args[3]))
          [] sname = "modam" ->
                 three(users(args[1]), users(args[2]), tags(<<>>))
          [] sname = "rev" -> two(users(args[1]), tags(args[2]))
          [] sname = "modafter" ->
                 timed(IF args[1] = <<>> THEN None ELSE parse_datetime(args[1]),
                       users(args[2]))
          [] sname = "hexpr" -> matched(Strip(args[1]), users(args[2]))

MaxSelWrites == 4

\* The live messages of SpecHSel, of one identity: two translations and
\* the fuzzy message a merge makes of the first.
SelMsgs ==
    << LiveMsg(<<"k">>, None, << <<"a">> >>, None, <<>>, FALSE, FALSE),
       LiveMsg(<<"k">>, None, << <<"b">> >>, None, <<>>, FALSE, FALSE),
       LiveMsg(<<"k">>, None, << <<"a">> >>, Some(<<"k">>), <<>>, TRUE, FALSE) >>

\* A history selector is made and called on the history of a live message.
\* SelCalls are the selector specifications, as name and arguments: no
\* users, users of one kind, and the inverted list of all users.
SelectHist(msgs) ==
    /\ sel = Idle
    /\ \E m \in msgs :
          LET SelCalls ==
                  LET none == <<>>
                      alice == <<"alice">>
                      bob == <<"bob">>
                      nobody == <<"~", "alice", ",", "bob", ",", "fuzzy">>
                  IN  { <<"asc", <<none>> >>, <<"asc", <<bob>> >>, <<"asc", <<nobody>> >>,
                        <<"mod", <<none>> >>, <<"mod", <<alice>> >>, <<"mod", <<nobody>> >>,
                        <<"modar", <<none, none, none>> >>, <<"modar", <<alice, bob, none>> >>,
                        <<"modam", <<none, none>> >>, <<"modam", <<UFUZZ, alice>> >>,
                        <<"modarm", <<none, none, none>> >>, <<"modarm", <<UFUZZ, bob, none>> >>,
                        <<"tmodar", <<none, none, none>> >>,
                        <<"rev", <<none, none>> >>, <<"rev", <<bob, none>> >>,
                        <<"revbm", <<none, none, none>> >>, <<"revbm", <<bob, alice, none>> >>,
                        <<"modafter", <<Stamp(1), none>> >>, <<"modafter", <<Stamp(0), alice>> >>,
                        <<"hexpr", <<<<"b">>, none>> >>, <<"hexpr", <<<<"a">>, <<"~", "bob">> >> >> }
              called(c, call, r) ==
                  sel' = [pc |-> "selected", msg |-> m, sname |-> call[1],
                          args |-> call[2], history |-> c.history,
                          error |-> r.error, res |-> r.res]
              collected(c) ==
                  /\ ~c.raised
                  /\ \E call \in SelCalls :
                         called(c, call,
                                selector_history(call[1], call[2], c.history,
                                                 ConfigUsers, {<<"t1">>, <<"t2">>}))
          IN  collected(asc_collect_history(m, acat, ConfigUsers, FALSE))
    /\ UNCHANGED <<acat, log, walk, parsed>>

\* Modifications by a translator and by the merge pseudo-user, untagged
\* reviews by a reviewer, and selector calls.
SpecHSel ==
    InitWriter /\
    [][\/ sel = Idle /\ AscribeTick({SelMsgs[1], SelMsgs[2]}, {KindMod},
                                     {<<"alice">>}, MaxSelWrites)
       \/ sel = Idle /\ AscribeTick({SelMsgs[3]}, {KindMod}, {UFUZZ},
                                     MaxSelWrites)
       \/ sel = Idle /\ AscribeTick({SelMsgs[1], SelMsgs[2]},
                                     {[atype |-> ATYPE_REV, atags |-> <<>>]},
                                     {<<"bob">>}, MaxSelWrites)
       \/ SelectHist({SelMsgs[1], SelMsgs[2], SelMsgs[3]})]_vars

\* A selector was called without error on a history with an ascribed head.
SelectedOn(snames) ==
    /\ sel.pc = "selected"
    /\ sel.sname \in snames
    /\ ~sel.error
    /\ sel.history[1].user # None

\* The users and the tags the k-th argument of the call stands for.
SelUsers(k) == parse_fixed_set(sel.args[k], ConfigUsers).els
SelTags == {<<>>}
ByOneOf(a, users) == a.user # None /\ a.user[1] \in users

\* Qualifying entries of revbm: the modifications and the reviews.
RevbmMods ==
    {i \in 1..Len(sel.history) :
        /\ sel.history[i].type = ATYPE_MOD
        /\ SelUsers(2) = {} \/ ByOneOf(sel.history[i], SelUsers(2))
        /\ SelUsers(1) = {} \/ ~ByOneOf(sel.history[i], SelUsers(1))}
RevbmRevs ==
    {i \in 1..Len(sel.history) :
        /\ sel.history[i].type = ATYPE_REV
        /\ sel.history[i].tag \in SelTags
        /\ SelUsers(1) = {} \/ ByOneOf(sel.history[i], SelUsers(1))
        /\ SelUsers(2) = {} \/ ~ByOneOf(sel.history[i], SelUsers(2))}
RevbmOlderRevs == {i \in RevbmRevs : RevbmMods # {} /\ i > FirstOf(RevbmMods)}

\* C24: revbm returns the index of the first qualifying review older than
\* the most recent qualifying modification whenever the history has such
\* a review, also when a newer qualifying review stands in front of that
\* modification.
C24_ReviewBeforeLastMod ==
    (SelectedOn({"revbm"}) /\ RevbmOlderRevs # {})
    => sel.res = FirstOf(RevbmOlderRevs)

\* The entries of the scan of modar, tmodar and modarm: the cancelling
\* ones, the range in front of the newest of them, the admissible
\* modifications, and those among them that can be candidates.
ModaxCancels ==
    {i \in 1..Len(sel.history) :
        /\ \/ sel.sname = "modarm" /\ sel.history[i].type = ATYPE_MOD
           \/ sel.history[i].type = ATYPE_REV /\ sel.history[i].tag \in SelTags
        /\ SelUsers(2) = {} \/ ByOneOf(sel.history[i], SelUsers(2))
        /\ SelUsers(1) = {} \/ ~ByOneOf(sel.history[i], SelUsers(1))}
ModaxRange ==
    1..(IF ModaxCancels = {} THEN Len(sel.history) ELSE FirstOf(ModaxCancels) - 1)
ModaxAdmissible ==
    {i \in ModaxRange :
        /\ sel.history[i].type = ATYPE_MOD
        /\ SelUsers(1) = {} \/ ByOneOf(sel.history[i], SelUsers(1))
        /\ SelUsers(2) = {} \/ ~ByOneOf(sel.history[i], SelUsers(2))}
ModaxCandidates ==
    {i \in ModaxAdmissible :
        i < Len(sel.history) =>
            /\ ~(/\ sel.history[i].user = Some(UFUZZ)
                 /\ merge_modified(sel.history[i + 1].msg, sel.history[i].msg))
            /\ ~(/\ sel.sname = "tmodar"
                 /\ sel.history[i + 1].msg.msgstr = sel.history[i].msg.msgstr)}

\* C25 as stated: modar, tmodar and modarm return the index of the oldest
\* admissible modification in front of the newest cancelling entry, 0 if
\* there is none.
C25_OldestAdmissible ==
    SelectedOn({"modar", "tmodar", "modarm"}) => sel.res = LastOf(ModaxAdmissible)

\* C25: modar, tmodar and modarm return the index of the oldest admissible
\* modification in front of the newest cancelling entry that is a
\* candidate, 0 if there is none: a modification by the fuzzy user that
\* differs from the next older entry only by merging is no candidate, nor
\* is under tmodar one with the translation of the next older entry. No
\* entry at or beyond the cancelling entry is selected.
C25_OldestCandidate ==
    SelectedOn({"modar", "tmodar", "modarm"})
    => /\ sel.res = LastOf(ModaxCandidates)
       /\ ModaxCancels # {} => sel.res < FirstOf(ModaxCancels)

C25_Witness ==
    /\ SelectedOn({"modar", "tmodar", "modarm"})
    /\ ModaxCancels # {}
    /\ sel.res # 0
    /\ ModaxAdmissible # ModaxCandidates
    /\ sel.res = LastOf(ModaxCandidates)

Modifications == {i \in 1..Len(sel.history) : sel.history[i].type = ATYPE_MOD}

\* C26 as stated: modam without users returns, on an ascribed history with
\* two modifications or more, the index of a modification.
C26_ModamSelects ==
    (/\ SelectedOn({"modam"})
     /\ sel.args = <<None, None>>
     /\ Cardinality(Modifications) >= 2)
    => sel.res \in Modifications

\* C26: modam without users returns 0 on every history: the newest
\* modification ends the scan before any modification is selected.
C26_ModamSelectsNothing ==
    (SelectedOn({"modam"}) /\ sel.args = <<None, None>>) => sel.res = 0

C26_Witness ==
    /\ SelectedOn({"modam"})
    /\ sel.args = <<None, None>>
    /\ Cardinality(Modifications) >= 2
    /\ sel.history[1].type = ATYPE_REV
    /\ sel.res = 0

\* The argument with the users of the entry a selector returns, and the
\* users it stands for: all when it is not given.
UserArg == IF sel.sname \in {"modafter", "hexpr"} THEN 2 ELSE 1
GivenUsers ==
    IF sel.args[UserArg] = None THEN ConfigUsers ELSE SelUsers(UserArg)

\* C27: a history selector returns 0 or an index of the history, of an
\* entry of the kind the selector is about and by a user of the given set.
C27_IndexKindUser ==
    (sel.pc = "selected" /\ ~sel.error)
    => /\ sel.res \in 0..Len(sel.history)
       /\ sel.res > 0 =>
            /\ sel.sname \in {"mod", "modar", "modam", "modarm", "tmodar", "modafter"}
                   => sel.history[sel.res].type = ATYPE_MOD
            /\ sel.sname \in {"rev", "revbm"}
                   => sel.history[sel.res].type = ATYPE_REV
            /\ ByOneOf(sel.history[sel.res], GivenUsers)

\* C28: a history selector returns 0 when the head of the history is the
\* unascribed entry, whatever the older entries are.
C28_UnascribedHeadSelectsNothing ==
    (sel.pc = "selected" /\ sel.history[1].user = None) => sel.res = 0

C28_Witness ==
    /\ sel.pc = "selected"
    /\ sel.sname = "asc"
    /\ sel.args = <<None>>
    /\ sel.history[1].user = None
    /\ Len(sel.history) >= 3
    /\ sel.res = 0

\* C29: a selector given a list of users that starts with "~" returns no
\* entry by a listed user, also when the list names every user of the
\* configuration.
C29_InvertedUsers ==
    (/\ sel.pc = "selected"
     /\ ~sel.error
     /\ sel.args[UserArg] # None
     /\ sel.args[UserArg][1] = "~"
     /\ sel.res > 0)
    => LET listed == Split(Tail(sel.args[UserArg]), ",")
       IN  /\ sel.history[sel.res].user[1] \in ConfigUsers
           /\ \A k \in 1..Len(listed) : sel.history[sel.res].user[1] # listed[k]

\* ------------------------------------------------------------------------
\* The command "reviewed" on a catalog with review flags and comments.

\* ascribe_reviewed(options, configs_catpaths, mode) on one catalog:
\* clear_review_cat with the selector "any" clears every message and notes
\* (diffed or revd, unrevd) for those where anything was cleared, a comment
\* included; ascribe_modified_cat ascribes the modifications; the selector
\* for the reviews is made from the notes and the selector of the command
\* line (the keys in selected); ascribe_reviewed_cat ascribes the reviews.
ascribe_reviewed(cat, acat_, tag, user, users, selected, hfilter, dt) ==
    LET revspec(c) ==
            IF c.commented \/ c.diffed \/ c.revd \/ c.unrevd
            THEN Some([revd |-> c.diffed \/ c.revd, unrevd |-> c.unrevd])
            ELSE None
        stest(revspecs, exclusive, msgs) ==
            {MsgKey(msgs[i].msg) : i \in
                {i \in 1..Len(msgs) :
                    /\ exclusive \/ revspecs[i] # None
                    /\ revspecs[i] # None => ~revspecs[i][1].unrevd
                    /\ MsgKey(msgs[i].msg) \in selected}}
        reviewed(revspecs, msgs, r) ==
            [raised |-> r.raised, acat |-> IF r.raised THEN acat_ ELSE r.acat,
             cat |-> msgs, revspecs |-> revspecs]
        modified(revspecs, msgs, m) ==
            IF m.raised
            THEN [raised |-> TRUE, acat |-> acat_, cat |-> msgs, revspecs |-> revspecs]
            ELSE reviewed(revspecs, msgs,
                          ascribe_reviewed_cat(
                              msgs, m.acat, tag, user, users,
                              stest(revspecs,
                                    \A i \in 1..Len(msgs) :
                                        revspecs[i] = None \/ ~revspecs[i][1].revd,
                                    msgs),
                              hfilter, <<>>, dt))
        cleared(revspecs, msgs) ==
            modified(revspecs, msgs, ascribe_modified_cat(msgs, acat_, user, users, dt))
        clear_review_cat(cs) ==
            cleared([i \in 1..Len(cs) |-> revspec(cs[i])],
                    [i \in 1..Len(cs) |-> [msg |-> cs[i].msg, flag |-> cs[i].flag]])
    IN  clear_review_cat([i \in 1..Len(cat) |-> clear_review_msg(cat[i])])

MaxRevRuns == 2

\* A run of the script in mode "reviewed" (ascribe_reviewed) on a catalog
\* as the reviewer hands it back: the first message plain, flagged as
\* reviewed among other flags and comments, with only the comment of the
\* ascription chain, or flagged as unreviewed; the second plain, with a
\* difference flag, or flagged unreviewed.
Reviewed ==
    LET ascto == <<"~", "a", "s", "c", "t", "o", ":", " ", "x">>
        withc(m, cs) == [m EXCEPT !.auto_comment = cs]
        K == LiveMsg(<<"k">>, None, << <<"a">> >>, None, <<>>, FALSE, FALSE)
        J == LiveMsg(<<"j">>, None, << <<"b">> >>, None, <<>>, FALSE, FALSE)
        Ks == { [msg |-> K, flag |-> {}],
                [msg |-> withc(K, << <<"n">>, ascto, <<"m">> >>),
                 flag |-> {"reviewed", "c-format"}],
                [msg |-> withc(K, <<ascto>>), flag |-> {}],
                [msg |-> K, flag |-> {"unreviewed", "rev"}] }
        Js == { [msg |-> J, flag |-> {}],
                [msg |-> withc(J, <<ascto, ascto>>), flag |-> {"ediff-total"}],
                [msg |-> J, flag |-> {"nrev", "no-wrap"}] }
        run(cat, selected, r) ==
            /\ acat' = r.acat
            /\ log' = Append(log, [mode |-> "reviewed", cat |-> cat,
                                   cleared |-> r.cat, revspecs |-> r.revspecs,
                                   selected |-> selected, dt |-> DtStart,
                                   raised |-> r.raised])
    IN  /\ Len(log) < MaxRevRuns
        /\ \E k \in Ks, j \in Js,
              selected \in {{<<None, Some(<<"k">>)>>},
                            {<<None, Some(<<"k">>)>>, <<None, Some(<<"j">>)>>}} :
              run(<<k, j>>, selected,
                  ascribe_reviewed(<<k, j>>, acat, <<>>, <<"bob">>, ConfigUsers,
                                   selected, FALSE, DtStart))
        /\ UNCHANGED <<walk, parsed, sel>>

SpecRev == InitWriter /\ [][Reviewed]_vars

\* ------------------------------------------------------------------------
\* C31: clearing the review state of a message.

ReviewFlags ==
    {"ediff", "ediff-total", "ediff-ignored", "reviewed", "revd", "rev",
     "unreviewed", "unrevd", "unrev", "urevd", "urev", "nrevd", "nrev"}
ChainComment(c) == IsPrefix(<<"~", "a", "s", "c", "t", "o", ":">>, Strip(c))

\* The entry before clearing and after: none of the review flags and no
\* comment of the ascription chain is left, the other flags, the other
\* comments in their order and the other fields are kept, and clearing
\* again finds nothing and changes nothing.
ClearedOf(before, after) ==
    /\ after.flag \cap ReviewFlags = {}
    /\ \A k \in 1..Len(after.msg.auto_comment) :
           ~ChainComment(after.msg.auto_comment[k])
    /\ after.flag = before.flag \ ReviewFlags
    /\ after.msg.auto_comment =
           SelectSeq(before.msg.auto_comment, LAMBDA c : ~ChainComment(c))
    /\ [after.msg EXCEPT !.auto_comment = <<>>]
           = [before.msg EXCEPT !.auto_comment = <<>>]
    /\ \A again \in {clear_review_msg(after)} :
           /\ ~again.commented /\ ~again.diffed /\ ~again.revd /\ ~again.unrevd
           /\ again.msg = after.msg
           /\ again.flag = after.flag

RevLines(ac, msg) ==
    IF AcatIndex(ac, msg) = 0 THEN 0
    ELSE Cardinality({k \in 1..Len(ac[AcatIndex(ac, msg)].auto_comment) :
                         IsPrefix(ATYPE_REV, ac[AcatIndex(ac, msg)].auto_comment[k])})

\* C32: when clearing took a diff or reviewed flag from some message, only
\* selected messages it took one from are ascribed as reviewed; when it
\* took none, all selected messages are; a message that carried an
\* unreviewed flag is never ascribed as reviewed.
C32_ReviewedStep ==
    LET w == log'[Len(log')]
        found(i) == clear_review_msg(w.cat[i])
        flagged == {i \in 1..Len(w.cat) : found(i).diffed \/ found(i).revd}
        chosen == {i \in 1..Len(w.cat) : MsgKey(w.cat[i].msg) \in w.selected}
        got == {i \in 1..Len(w.cat) :
                   RevLines(acat', w.cat[i].msg) > RevLines(acat, w.cat[i].msg)}
    IN  (Len(log') = Len(log) + 1 /\ ~w.raised) =>
            /\ flagged # {} => got \subseteq (flagged \cap chosen)
            /\ flagged = {} => got = {i \in chosen : ~found(i).unrevd}
            /\ \A i \in got : ~found(i).unrevd
C32_ReviewedOnlyFlagged == [][C32_ReviewedStep]_vars

\* ------------------------------------------------------------------------
\* C33: the state read back after a write.

\* C33: after a write of either kind that is not earlier than the writes
\* before it, the newest entry reconstructed from the record has the fuzzy
\* and obsolete state of the live message written, also when only the
\* state changed and when nothing changed.
C33_FlagsStep ==
    LET w == log'[Len(log')]
    IN  (/\ Len(log') = Len(log) + 1
         /\ ~w.raised
         /\ \A n \in 1..Len(log) : log[n].dt.t <= w.dt.t) =>
            \A new \in {asc_collect_history_single(
                            acat'[AcatIndex(acat', w.msg)], ConfigUsers)} :
                ~new.raised =>
                    /\ new.history # <<>>
                    /\ new.history[1].msg.fuzzy = w.msg.fuzzy
                    /\ new.history[1].msg.obsolete = w.msg.obsolete
C33_FlagsAsWritten == [][C33_FlagsStep]_vars

\* ------------------------------------------------------------------------
\* C34: the numbering of back-references.

\* C34: the entry a write counts to for the number N of a back-reference,
\* among the separator-bearing entries in the order of their time stamps,
\* is the entry the reader counts to, among the separator-bearing comment
\* lines in their order in the record, whatever the time stamps are.
C34_NumberingStep ==
    LET w == log'[Len(log')]
        idx == AcatIndex(acat, w.msg)
    IN  (Len(log') = Len(log) + 1 /\ ~w.raised /\ idx # 0
         /\ WrittenSeplen(acat'[idx]) # 0) =>
            \A h \in {asc_collect_entries(acat[idx], ConfigUsers).history} :
            \A f \in TrackedSet :
                LET old == get_as_sequence(acat[idx], f, TRUE)
                    new == get_as_sequence(acat'[idx], f, TRUE)
                    live == get_as_sequence(w.msg, f, FALSE)
                    shead == field_separator_head(WrittenSeplen(acat'[idx]))
                    lines == {k \in 1..Len(h) : h[k].slen # 0}
                    written(n) == {k \in lines :
                                      Cardinality({j \in lines : KeyLess(h, j, k)}) = n}
                    read(n) == {k \in lines :
                                   Cardinality({j \in lines : j < k}) = n}
                IN  \A i \in 1..Min(Len(old), Len(live)) :
                    \A n \in 0..(Len(h) - 1) :
                        AddedToken(old, new, i)
                            = shead \o <<trsep_mod_eq>> \o ToStr(n)
                        => written(n) = read(n)
C34_NumberingAgrees == [][C34_NumberingStep]_vars

\* ------------------------------------------------------------------------
\* C35: the tokens of a stored item.

\* Writes at any times of one identity whose translation holds the marker,
\* holds none, and has a second item for a plural.
SpecPad ==
    InitWriter /\
    [][Ascribe({LiveMsg(<<"k">>, None, << <<"|", "~">> >>, None, <<>>, FALSE, FALSE),
                LiveMsg(<<"k">>, None, << <<"a">> >>, None, <<>>, FALSE, FALSE),
                LiveMsg(<<"k">>, Some(<<"p">>), << <<"a">>, <<"b">> >>, None, <<>>,
                        FALSE, FALSE)},
               {KindMod}, MaxWrites)]_vars

RECURSIVE Tokenized(_, _)
\* The stored string rest is made of one token for each of the separators
\* heads, in their order: the separator is found, what follows it up to
\* the end of the line is nothing, the mark of absence or a
\* back-reference, and nothing is left after the last token.
Tokenized(rest, heads) ==
    IF heads = <<>> THEN rest = <<>>
    ELSE LET p1 == Find(rest, Head(heads), 0)
             nl == IF p1 < 0 THEN -1 ELSE Find(rest, <<NL>>, p1 + 1)
             p2 == IF nl < 0 THEN Len(rest) ELSE nl
             mods == SubSeq(rest, p1 + Len(Head(heads)) + 1, p2)
         IN  /\ p1 >= 0
             /\ \/ mods = <<>>
                \/ mods = <<trsep_mod_none>>
                \/ /\ Len(mods) > 1
                   /\ Head(mods) = trsep_mod_eq
                   /\ IsDigits(Tail(mods))
             /\ IF nl < 0 THEN Tail(heads) = <<>>
                ELSE Tokenized(SubSeq(rest, nl + 2, Len(rest)), Tail(heads))

\* C35: every stored item of a tracked field holds one token for each
\* comment line of the record with a separator length above 0, in the
\* order of the lines, each built with the separator of its line, the
\* tokens of absence that pad an item which appeared later included.
C35_TokenCount ==
    \A k \in 1..Len(acat) :
        \A h \in {asc_collect_entries(acat[k], ConfigUsers).history} :
        \A heads \in {[n \in 1..Len(SelectSeq(h, LAMBDA a : a.slen # 0)) |->
                          field_separator_head(
                              SelectSeq(h, LAMBDA a : a.slen # 0)[n].slen)]} :
        \A f \in TrackedSet :
            \A i \in 1..Len(get_as_sequence(acat[k], f, TRUE)) :
                Tokenized(get_as_sequence(acat[k], f, TRUE)[i], heads)

\* ------------------------------------------------------------------------
\* C36: a record read after a user left the configuration.

\* C36: when the lines of a user no longer in the configuration are
\* skipped, the entries reconstructed from the other lines, snapshots
\* included, are those reconstructed for them with every user known.
C36_SkipKeepsSnapshots ==
    \A k \in 1..Len(acat) :
        \A full \in {asc_collect_entries(acat[k], ConfigUsers)} :
        \A part \in {asc_collect_entries(acat[k], ConfigUsers \ {<<"bob">>})} :
            ~full.raised =>
                /\ ~part.raised
                /\ part.history
                      = SelectSeq(full.history, LAMBDA a : a.user # Some(<<"bob">>))

\* ------------------------------------------------------------------------
\* C37: the history handed to the callers of asc_collect_history.

\* C37: whatever the options nomrg, hfilter and addrem, the history that
\* asc_collect_history returns for a message has at least one entry, so
\* that history[0] exists for show_history_cat and examine_state.
C37_HistoryNonEmpty ==
    (walk.pc = "collected" /\ ~walk.raised) => Len(walk.history) > 0

\* ------------------------------------------------------------------------
\* C38: the order of time stamps in the list of asc_collect_history_w.

\* C38: in the list asc_collect_history_w has built, at the return of each
\* activation, no entry has a later time stamp than the entry before it,
\* the entries taken from the record of a previous identity included, also
\* when the record of the message looked up first has no entry.
C38_TimestampsNeverIncrease ==
    (walk.pc # "idle" /\ walk.w.pc # "raised") =>
        \A h \in {walk.w.history} :
            \A i \in 1..(Len(h) - 1) :
                Instant(h[i].date[1]) >= Instant(h[i + 1].date[1])

\* A finished walk whose list has entries of two records.
C38_Witness ==
    /\ walk.pc # "idle"
    /\ walk.w.pc = "done"
    /\ Len(walk.w.history) >= 2
    /\ PivotAt(walk.w.history) # 0

\* ------------------------------------------------------------------------
\* C39: the message passed to asc_collect_history, after the call.

\* The message object passed to asc_collect_history when the call returns
\* the stages c. The entry put in front for a message that is not ascribed
\* holds the object itself (a.msg = msg), the entries read from records
\* hold snapshots built for them, and msg_ediff writes into the snapshot of
\* the newer modification (emsg=a_nextmod.msg): the object is what the
\* entry in front holds at the end, when that entry is still in the list.
asc_collect_history_live(msg, c) ==
    LET heads == {i \in 1..Len(c.history) : c.history[i].pos = 1}
    IN  IF c.marked # <<>> /\ c.marked[1].user = None /\ heads # {}
        THEN c.history[CHOOSE i \in heads : TRUE].msg
        ELSE msg

\* C39: asc_collect_history leaves every field of the message passed in as
\* it was, whatever the options, the reduction to segments of differences
\* of a message that is not ascribed included.
C39_LiveUnchanged ==
    (walk.pc = "collected" /\ ~walk.raised) =>
        asc_collect_history_live(walk.msg, walk) = walk.msg

\* ------------------------------------------------------------------------
\* Selector factories of external modules (collect_externals).

\* A run of the script with one external module: collect_externals updates
\* the registry with the module's xm_selector_factories (an entry of the
\* module replaces the registry's entry of the same name), then
\* build_selector compiles the specifications against the registry. The
\* factories a module may define are a name of its own, a name that starts
\* with the letter of the negation mark, and a name that is the mark
\* followed by a name of the registry; the specifications are these names
\* and some of the registry, plain and with the mark, and one with an
\* argument.
CollectAndCompile ==
    LET xmod == { <<<<"w">>, FALSE>>,
                  <<<<"n", "e", "w">>, FALSE>>,
                  <<<<"n", "a", "n", "y">>, FALSE>> }
        specs == {e[1] : e \in xmod}
                 \cup {<<"n">> \o e[1] : e \in xmod}
                 \cup {<<"a", "n", "y">>, <<"n", "a", "s", "c">>, <<"w", ":", "a">>}
    IN  /\ sel = Idle
        /\ \E selector_factories \in SUBSET xmod,
              selspecs \in UNION {[1..n -> specs] : n \in 0..MaxSpecs},
              hist \in BOOLEAN :
              LET compiled(factories) ==
                      sel' = [pc |-> "compiled", factories |-> factories,
                              selspecs |-> selspecs, hist |-> hist,
                              r |-> build_selector(selspecs, hist, factories)]
              IN  compiled({e \in xm_selector_factories :
                                \A x \in selector_factories : x[1] # e[1]}
                           \cup selector_factories)
        /\ UNCHANGED <<acat, log, walk, parsed>>

SpecXm == InitWriter /\ [][CollectAndCompile]_vars

\* ------------------------------------------------------------------------
\* C40: the registry as an extension point.

\* C40: when every specification of the list is a name of the registry,
\* names added by an external module included, or such a name with the
\* negation mark in front, each followed by arguments if any, build_selector
\* for a plain selector returns a compound whose component for a
\* specification that is a registered name is the selector of that name's
\* factory, not negated, and for the mark in front of a registered name is
\* the selector of that name's factory, negated.
C40_OpenRegistry ==
    (sel.pc = "compiled" /\ ~sel.hist) =>
        LET n == Len(sel.selspecs)
            names == {e[1] : e \in sel.factories}
            head(k) == Split(sel.selspecs[k], ":")[1]
            known(k) == head(k) \in names
                        \/ (head(k)[1] = "n" /\ Tail(head(k)) \in names)
        IN  (\A k \in 1..n : known(k)) =>
                /\ sel.r.error = None
                /\ sel.r.selector # None
                /\ Len(sel.r.selector[1].selectors) = n
                /\ \A k \in 1..n :
                      LET c == sel.r.selector[1].selectors[k]
                      IN  IF head(k) \in names
                          THEN c.sname = head(k) /\ ~c.negated
                          ELSE c.sname = Tail(head(k)) /\ c.negated

====
